---- MODULE Spec2Model ----
(***************************************************************************)
(* Model of the MT5 gRPC bridge (docker/container/Metatrader/bridge.py):   *)
(*   - the module loader (_load_mt5 / _ensure_mt5_loaded) run by the       *)
(*     worker threads of the thread pool,                                  *)
(*   - the RPC methods of MT5ServiceServicer, each as a pipeline           *)
(*     ensure-loaded -> validate -> native call -> marshal,                *)
(*   - the server runtime: main(), the signal handler _graceful_shutdown   *)
(*     and the grpc server object they drive.                              *)
(*                                                                         *)
(* Five specifications share the variables:                                *)
(*   Spec        worker threads racing through the loader (few methods),   *)
(*   SpecRpc     one worker running every RPC method on all request shapes,*)
(*   SpecServer  main(), signals, the grace timer and in-flight calls,     *)
(*   SpecServerFair  the same with fair scheduling of the main thread and  *)
(*               of the server's threads, for termination,                 *)
(*   SpecHelpers the helper functions applied to bounded sets of arguments.*)
(***************************************************************************)
EXTENDS Integers, Sequences, FiniteSets, TLC

(***************************************************************************)
(* Bounds of the model.                                                    *)
(***************************************************************************)
\* worker threads racing in Spec (the pool's max_workers)
NumThreads == 2
\* RPC calls the pool serves in all
MaxCalls == 3
\* longest symbol text a request carries
MaxSymLen == 1

(***************************************************************************)
(* Values.  An optional value (Python None or a value; a protobuf optional *)
(* field that is absent or present) is a sequence of length 0 or 1.  A     *)
(* text is a sequence of characters, so that the empty text, a blank text  *)
(* and a name are different values with a length.                          *)
(***************************************************************************)
None == <<>>
Some(v) == <<v>>
IsNone(o) == o = <<>>
ValueOf(o) == o[1]

Workers == 1 .. NumThreads
NoThread == 0

Chars == {" ", "E"}
Texts == UNION {[1 .. n -> Chars] : n \in 0 .. MaxSymLen}
EmptyText == <<>>

\* reasons with which "import MetaTrader5" can fail
ImportFailures == {"No module named 'MetaTrader5'", "DLL load failed"}

VARIABLES
    _mt5_module,  \* MT5ServiceServicer._mt5_module: None or Some(id of the import that produced it)
    _mt5_lock,    \* MT5ServiceServicer._mt5_lock (RLock): owner thread and recursion count
    imports,      \* executions of "import MetaTrader5" so far: how many succeeded, how many failed
    pc,           \* position of each worker thread
    frame,        \* call-local state of each worker thread: request, locals, native calls, outcome
    done,         \* RPC calls the pool has taken up so far
    mainPc,       \* position of the main thread inside main()
    handlers,     \* stack of the _graceful_shutdown frames running on the main thread
    pending,      \* what main() carries into its finally block: a return value or an exception
    _server,      \* module global _server: "None" or "set"
    stage,        \* the grpc server's stage
    deadline,     \* time at which the grpc server cancels all calls: None or Some(time)
    clock,        \* elapsed seconds
    rpc,          \* in-flight calls of the server runtime
    exitCode,     \* process exit status: None while running
    sigLog,       \* signals delivered so far: their number, the time of the first
                  \* and the calls that were in flight when it came
    faulted,      \* whether the server raised a runtime fault (start or wait_for_termination)
    helper        \* a helper function applied on its own: its name, arguments and result

bridgeVars == <<_mt5_module, _mt5_lock, imports, pc, frame, done>>
serverVars == <<mainPc, handlers, pending, _server, stage, deadline, clock, rpc,
                exitCode, sigLog, faulted>>
vars == <<_mt5_module, _mt5_lock, imports, pc, frame, done,
          mainPc, handlers, pending, _server, stage, deadline, clock, rpc,
          exitCode, sigLog, faulted, helper>>


(***************************************************************************)
(* Requests.  Each RPC method takes its own protobuf message; a field      *)
(* declared optional is presence-tracked (HasField), the others always     *)
(* carry a value.                                                          *)
(***************************************************************************)
\* largest magnitude of an integer field (count, ticket, date) of a request
MaxInt == 2

Opt(S) == {None} \cup {Some(v) : v \in S}
HasField(o) == o # None
\* reading an optional field that is absent gives the type's default
FieldOr(o, dflt) == IF o = None THEN dflt ELSE o[1]

Counts == (0 - MaxInt) .. MaxInt
Dates == 0 .. MaxInt
Tickets == {0, 1}
Names == {EmptyText, <<"E">>}
\* serialized order requests: the empty text, a truncated document, two well-formed ones
JsonRequests == {"", "{", "{}", "{\"action\": 1, \"symbol\": \"E\"}"}

EmptyMethods ==
    {"HealthCheck", "Shutdown", "Version", "LastError", "GetConstants",
     "TerminalInfo", "AccountInfo", "SymbolsTotal", "PositionsTotal", "OrdersTotal"}
SymbolMethods ==
    {"SymbolInfo", "SymbolInfoTick", "MarketBookAdd", "MarketBookGet", "MarketBookRelease"}
CopyCountMethods == {"CopyRatesFrom", "CopyRatesFromPos", "CopyTicksFrom"}
CopyRangeMethods == {"CopyRatesRange", "CopyTicksRange"}
CopyMethods == CopyCountMethods \cup CopyRangeMethods
OrderMethods == {"OrderCheck", "OrderSend"}
FilterMethods == {"PositionsGet", "OrdersGet"}
HistoryTotalMethods == {"HistoryOrdersTotal", "HistoryDealsTotal"}
HistoryGetMethods == {"HistoryOrdersGet", "HistoryDealsGet"}

Methods ==
    EmptyMethods \cup SymbolMethods \cup CopyMethods \cup OrderMethods
    \cup FilterMethods \cup HistoryTotalMethods \cup HistoryGetMethods
    \cup {"Initialize", "Login", "SymbolsGet", "SymbolSelect",
          "OrderCalcMargin", "OrderCalcProfit"}

Requests(m) ==
    CASE m \in EmptyMethods -> {[msg |-> "Empty"]}
      [] m = "Initialize" ->
            [msg : {"InitRequest"}, path : Opt(Names), login : Opt(Tickets),
             password : Opt(Names), server : Opt(Names), timeout : Opt(Tickets),
             portable : Opt(BOOLEAN)]
      [] m = "Login" ->
            [msg : {"LoginRequest"}, login : Tickets, password : Names,
             server : Names, timeout : {0}]
      [] m = "SymbolsGet" -> [msg : {"SymbolsRequest"}, group : Opt(Names)]
      [] m \in SymbolMethods -> [msg : {"SymbolRequest"}, symbol : Texts]
      [] m = "SymbolSelect" ->
            [msg : {"SymbolSelectRequest"}, symbol : Texts, enable : BOOLEAN]
      [] m \in CopyCountMethods ->
            [msg : {"CopyRequest"}, symbol : Texts, timeframe : {1}, start : {0},
             count : Counts, flags : {1}]
      [] m \in CopyRangeMethods ->
            [msg : {"CopyRangeRequest"}, symbol : Texts, timeframe : {1},
             date_from : Dates, date_to : Dates, flags : {1}]
      [] m = "OrderCalcMargin" ->
            [msg : {"MarginRequest"}, action : {0}, symbol : Texts, volume : {1},
             price : {1}]
      [] m = "OrderCalcProfit" ->
            [msg : {"ProfitRequest"}, action : {0}, symbol : Texts, volume : {1},
             price_open : {1}, price_close : {2}]
      [] m \in OrderMethods -> [msg : {"OrderRequest"}, json_request : JsonRequests]
      [] m \in FilterMethods ->
            [msg : {"FilterRequest"}, symbol : Opt(Names), group : Opt(Names),
             ticket : Opt(Tickets)]
      [] m \in HistoryTotalMethods ->
            [msg : {"HistoryRequest"}, date_from : Opt(Dates), date_to : Opt(Dates),
             group : {None}, ticket : {None}, position : {None}]
      [] m \in HistoryGetMethods ->
            [msg : {"HistoryRequest"}, date_from : Opt({1}), date_to : Opt({2}),
             group : Opt(Names), ticket : Opt(Tickets), position : Opt(Tickets)]

(***************************************************************************)
(* Native values.  A namedtuple-like result of the native module is a      *)
(* record tagged nt; _asdict() gives the same fields as a plain dict.      *)
(***************************************************************************)
NT(fields) == [nt |-> TRUE, f |-> fields]
Dict(fields) == [nt |-> FALSE, f |-> fields]
_asdict(obj) == Dict(obj.f)

\* a numpy array: raw bytes, dtype name, shape
Array(bytes, dtype, shape) == [bytes |-> bytes, dtype |-> dtype, shape |-> shape]
Arrays == {Array(<<>>, "float64", <<0>>), Array(<<7, 9>>, "float64", <<2>>)}

TerminalRecords ==
    {NT([connected |-> c, trade_allowed |-> a, build |-> 4000]) : c, a \in BOOLEAN}
OrderResults ==
    {NT([retcode |-> 10009, request |-> NT([action |-> 1])])}
Items == {NT([ticket |-> 1]), NT([ticket |-> 2])}
ItemTuples == {<<>>} \cup {<<i>> : i \in Items} \cup {<<i, j>> : i, j \in Items}
ErrorTuples == {<<1, "Success">>, <<0 - 10004, "No IPC connection">>}

(***************************************************************************)
(* Helper functions of MT5ServiceServicer.                                 *)
(***************************************************************************)
_is_namedtuple_like(obj) == obj.nt

RECURSIVE ConvertNested(_, _)
ConvertNested(fields, nested_fields) ==
    IF nested_fields = <<>> THEN fields
    ELSE LET field == Head(nested_fields)
             rest == ConvertNested(fields, Tail(nested_fields))
         IN  IF field \in DOMAIN rest /\ _is_namedtuple_like(rest[field])
             THEN [rest EXCEPT ![field] = _asdict(@)]
             ELSE rest

_materialize_single(result, func_name, nested_fields) ==
    IF result = None THEN None
    ELSE Some(Dict(ConvertNested(_asdict(ValueOf(result)).f, nested_fields)))

_materialize_tuple(result, func_name) ==
    IF result = None THEN None
    ELSE Some([i \in 1 .. Len(ValueOf(result)) |-> _asdict(ValueOf(result)[i])])

\* (a validator that lets every symbol through)
_validate_symbol_accepts_all(symbol, func_name) == TRUE
_validate_symbol(symbol, func_name) == ~(Len(symbol) = 0)

\* (a validator that lets a count of zero through)
_validate_count_allows_zero(count, func_name) == ~(count < 0)
\* (a validator that wants more than one element)
_validate_count_rejects_one(count, func_name) == ~(count <= 1)
_validate_count(count, func_name) == ~(count <= 0)

\* The two kinds of value _validate_date_range takes: a Python int (epoch seconds) and
\* a datetime, whose timestamp() is a number of seconds with a fraction; the model
\* counts timestamps in half seconds.
PyInt(n) == [number |-> TRUE, v |-> n]
PyDatetime(halves) == [number |-> FALSE, v |-> halves]
\* isinstance(date, (int, float))
isinstance_number(date) == date.number
\* int(date.timestamp()): the fraction is cut off, towards zero
int_timestamp(date) ==
    IF date.v >= 0 THEN date.v \div 2 ELSE 0 - ((0 - date.v) \div 2)

\* (a validator that turns down equal bounds)
_validate_date_range_strict(date_from, date_to, func_name) ==
    LET from_val == IF isinstance_number(date_from) THEN date_from.v
                    ELSE int_timestamp(date_from)
        to_val == IF isinstance_number(date_to) THEN date_to.v
                  ELSE int_timestamp(date_to)
    IN  ~(from_val >= to_val)
_validate_date_range(date_from, date_to, func_name) ==
    LET from_val == IF isinstance_number(date_from) THEN date_from.v
                    ELSE int_timestamp(date_from)
        to_val == IF isinstance_number(date_to) THEN date_to.v
                  ELSE int_timestamp(date_to)
    IN  ~(from_val > to_val)

\* json.dumps: the transport text of a value (never the empty text)
JsonDumps(data) == <<"json", data>>

_numpy_to_proto(arr) ==
    IF arr = None
    THEN [type |-> "NumpyArray", data |-> <<>>, dtype |-> "", shape |-> <<>>]
    ELSE [type |-> "NumpyArray", data |-> ValueOf(arr).bytes,
          dtype |-> ValueOf(arr).dtype, shape |-> ValueOf(arr).shape]

_dict_to_json(data) == IF data = None THEN EmptyText ELSE JsonDumps(ValueOf(data))

\* json.loads on the serialized order request: a dict, or JSONDecodeError
JsonWellFormed(text) == text \in {"{}", "{\"action\": 1, \"symbol\": \"E\"}"}
JsonLoads(text) ==
    IF text = "{}" THEN Dict([n |-> 0])
    ELSE Dict([n |-> 2, action |-> 1, symbol |-> <<"E">>])

\* bool(x) and Python truthiness of the values the methods test
PyBool(o) == IF o = None THEN FALSE ELSE ValueOf(o)
TruthyText(o) == o # None /\ Len(ValueOf(o)) > 0
TruthyInt(o) == o # None /\ ValueOf(o) # 0

(***************************************************************************)
(* Outcome of a method body: the native calls it made, in order, and       *)
(* either a response or the exception it let escape.                       *)
(***************************************************************************)
NativeCall(fn, args, kwargs) == [fn |-> fn, args |-> args, kwargs |-> kwargs]
NoError == [kind |-> "", reason |-> "", at |-> ""]
NoResponse == [type |-> "none"]
Return(calls, resp) == [calls |-> calls, resp |-> resp, err |-> NoError]
Raise(calls, kind, reason) ==
    [calls |-> calls, resp |-> NoResponse,
     err |-> [kind |-> kind, reason |-> reason, at |-> "body"]]

BoolResponse(b) == [type |-> "BoolResponse", result |-> b]
IntResponse(n) == [type |-> "IntResponse", value |-> n]
\* mt5_pb2.FloatResponse(value=x), and mt5_pb2.FloatResponse() which assigns nothing
FloatResponse(x) == [type |-> "FloatResponse", value |-> Some(x)]
FloatResponseEmpty == [type |-> "FloatResponse", value |-> None]
\* The wire form of a FloatResponse: the message declares no presence for its one
\* field, so the field travels only when it holds something other than zero
SerializeFloatResponse(msg) ==
    IF msg.value = None \/ ValueOf(msg.value) = 0
    THEN <<>>
    ELSE <<<<"value", ValueOf(msg.value)>>>>
DictData(text) == [type |-> "DictData", json_data |-> text]
DictList(items) == [type |-> "DictList", json_items |-> items]
HealthStatus(h, av, c, ta, b, r) ==
    [type |-> "HealthStatus", healthy |-> h, mt5_available |-> av, connected |-> c,
     trade_allowed |-> ta, build |-> b, reason |-> r]

(***************************************************************************)
(* RPC methods of MT5ServiceServicer, after their ensure-loaded step: each *)
(* maps its request and the native module's answer to an outcome.          *)
(***************************************************************************)
\* kwargs[key] = value when cond holds (a dict, in insertion order)
Kw(key, cond, value) == IF cond THEN <<<<key, value>>>> ELSE <<>>

\* (a HealthCheck that reports the module unavailable when the terminal is absent)
HealthCheck_terminal_as_module(request, nat, le, mt5_loaded) ==
    IF ~mt5_loaded \/ nat = None
    THEN Return(<<>>, HealthStatus(FALSE, FALSE, FALSE, FALSE, 0,
                                   <<"MT5 module not loaded">>))
    ELSE LET terminal == ValueOf(nat).f
         IN  Return(<<NativeCall("terminal_info", <<>>, <<>>)>>,
                    HealthStatus(terminal.connected, TRUE, terminal.connected,
                                 terminal.trade_allowed, terminal.build, <<>>))
\* (a HealthCheck that reports healthy whenever the terminal answers)
HealthCheck_healthy_if_terminal(request, nat, le, mt5_loaded) ==
    IF ~mt5_loaded
    THEN Return(<<>>, HealthStatus(FALSE, FALSE, FALSE, FALSE, 0,
                                   <<"MT5 module not loaded">>))
    ELSE IF nat = None
    THEN Return(<<NativeCall("terminal_info", <<>>, <<>>),
                  NativeCall("last_error", <<>>, <<>>)>>,
                HealthStatus(FALSE, TRUE, FALSE, FALSE, 0,
                             <<"Terminal not connected: ", le>>))
    ELSE LET terminal == ValueOf(nat).f
         IN  Return(<<NativeCall("terminal_info", <<>>, <<>>)>>,
                    HealthStatus(TRUE, TRUE, terminal.connected,
                                 terminal.trade_allowed, terminal.build, <<>>))
\* HealthCheck from line 215 on; le is what last_error() would answer
HealthCheck(request, nat, le, mt5_loaded) ==
    IF ~mt5_loaded
    THEN Return(<<>>, HealthStatus(FALSE, FALSE, FALSE, FALSE, 0,
                                   <<"MT5 module not loaded">>))
    ELSE IF nat = None
    THEN Return(<<NativeCall("terminal_info", <<>>, <<>>),
                  NativeCall("last_error", <<>>, <<>>)>>,
                HealthStatus(FALSE, TRUE, FALSE, FALSE, 0,
                             <<"Terminal not connected: ", le>>))
    ELSE LET terminal == ValueOf(nat).f
         IN  Return(<<NativeCall("terminal_info", <<>>, <<>>)>>,
                    HealthStatus(terminal.connected, TRUE, terminal.connected,
                                 terminal.trade_allowed, terminal.build, <<>>))

\* the response of HealthCheck when _load_mt5 raised e (lines 204-213)
HealthCheckLoadFailed(e) ==
    HealthStatus(FALSE, FALSE, FALSE, FALSE, 0, <<"MT5 module load failed: ", e>>)

Initialize(request, nat) ==
    LET kwargs ==
            Kw("path", HasField(request.path), FieldOr(request.path, EmptyText))
            \o Kw("login", HasField(request.login), FieldOr(request.login, 0))
            \o Kw("password", HasField(request.password),
                  FieldOr(request.password, EmptyText))
            \o Kw("server", HasField(request.server),
                  FieldOr(request.server, EmptyText))
            \o Kw("timeout", HasField(request.timeout), FieldOr(request.timeout, 0))
            \o Kw("portable", FieldOr(request.portable, FALSE),
                  FieldOr(request.portable, FALSE))
    IN  Return(<<NativeCall("initialize", <<>>, kwargs)>>, BoolResponse(PyBool(nat)))

Login(request, nat) ==
    Return(<<NativeCall("login", <<>>,
                        <<<<"login", request.login>>, <<"password", request.password>>,
                          <<"server", request.server>>, <<"timeout", request.timeout>>>>)>>,
           BoolResponse(PyBool(nat)))

Shutdown(request, nat) ==
    Return(<<NativeCall("shutdown", <<>>, <<>>)>>, [type |-> "Empty"])

Version(request, nat) ==
    LET calls == <<NativeCall("version", <<>>, <<>>)>>
    IN  IF nat = None
        THEN Return(calls, [type |-> "MT5Version", major |-> 0, minor |-> 0, build |-> ""])
        ELSE Return(calls, [type |-> "MT5Version", major |-> ValueOf(nat)[1],
                            minor |-> ValueOf(nat)[2], build |-> ValueOf(nat)[3]])

LastError(request, nat) ==
    LET calls == <<NativeCall("last_error", <<>>, <<>>)>>
    IN  IF nat = None
        THEN Raise(calls, "TypeError", "'NoneType' object is not subscriptable")
        ELSE Return(calls, [type |-> "ErrorInfo", code |-> ValueOf(nat)[1],
                            message |-> ValueOf(nat)[2]])

TerminalInfo(request, nat) ==
    LET data == _materialize_single(nat, "terminal_info", <<>>)
    IN  Return(<<NativeCall("terminal_info", <<>>, <<>>)>>, DictData(_dict_to_json(data)))

AccountInfo(request, nat) ==
    LET data == _materialize_single(nat, "account_info", <<>>)
    IN  Return(<<NativeCall("account_info", <<>>, <<>>)>>, DictData(_dict_to_json(data)))

SymbolsTotal(request, nat) ==
    Return(<<NativeCall("symbols_total", <<>>, <<>>)>>,
           IntResponse(IF nat # None THEN ValueOf(nat) ELSE 0))

\* (a chunk size one short of the documented 500)
chunk_size_one_short == 500 - 1
\* the chunk size of SymbolsGet
chunk_size == 500

\* (chunking that keeps the full chunks and drops the remainder)
RECURSIVE SymbolChunks_full_only(_, _)
SymbolChunks_full_only(items, start) ==
    IF start + chunk_size > Len(items) THEN <<>>
    ELSE LET chunk_items == [k \in 1 .. chunk_size |-> _asdict(items[start + k])]
         IN  <<JsonDumps(chunk_items)>> \o SymbolChunks_full_only(items, start + chunk_size)

\* items[i : i + chunk_size] for i in range(start, total, chunk_size), each serialized
RECURSIVE SymbolChunks(_, _)
SymbolChunks(items, start) ==
    IF start >= Len(items) THEN <<>>
    ELSE LET stop == IF start + chunk_size < Len(items) THEN start + chunk_size
                     ELSE Len(items)
             chunk_items == [k \in 1 .. (stop - start) |-> _asdict(items[start + k])]
         IN  <<JsonDumps(chunk_items)>> \o SymbolChunks(items, start + chunk_size)

SymbolsGet(request, nat) ==
    LET group == request.group
        calls == <<NativeCall("symbols_get", <<>>,
                              Kw("group", TruthyText(group), FieldOr(group, EmptyText)))>>
    IN  IF nat = None
        THEN Return(calls, [type |-> "SymbolsResponse", total |-> 0, chunks |-> <<>>])
        ELSE Return(calls, [type |-> "SymbolsResponse", total |-> Len(ValueOf(nat)),
                            chunks |-> SymbolChunks(ValueOf(nat), 0)])

SymbolInfo(request, nat) ==
    IF ~_validate_symbol(request.symbol, "SymbolInfo")
    THEN Return(<<>>, DictData(EmptyText))
    ELSE LET data == _materialize_single(nat, "symbol_info", <<>>)
         IN  Return(<<NativeCall("symbol_info", <<request.symbol>>, <<>>)>>,
                    DictData(_dict_to_json(data)))

SymbolInfoTick(request, nat) ==
    IF ~_validate_symbol(request.symbol, "SymbolInfoTick")
    THEN Return(<<>>, DictData(EmptyText))
    ELSE LET data == _materialize_single(nat, "symbol_info_tick", <<>>)
         IN  Return(<<NativeCall("symbol_info_tick", <<request.symbol>>, <<>>)>>,
                    DictData(_dict_to_json(data)))

SymbolSelect(request, nat) ==
    IF ~_validate_symbol(request.symbol, "SymbolSelect")
    THEN Return(<<>>, BoolResponse(FALSE))
    ELSE Return(<<NativeCall("symbol_select", <<request.symbol, request.enable>>, <<>>)>>,
                BoolResponse(PyBool(nat)))

CopyRatesFrom(request, nat) ==
    IF ~_validate_symbol(request.symbol, "CopyRatesFrom")
    THEN Return(<<>>, _numpy_to_proto(None))
    ELSE IF ~_validate_count(request.count, "CopyRatesFrom")
    THEN Return(<<>>, _numpy_to_proto(None))
    ELSE Return(<<NativeCall("copy_rates_from",
                             <<request.symbol, request.timeframe, request.start,
                               request.count>>, <<>>)>>,
                _numpy_to_proto(nat))

CopyRatesFromPos(request, nat) ==
    IF ~_validate_symbol(request.symbol, "CopyRatesFromPos")
    THEN Return(<<>>, _numpy_to_proto(None))
    ELSE IF ~_validate_count(request.count, "CopyRatesFromPos")
    THEN Return(<<>>, _numpy_to_proto(None))
    ELSE Return(<<NativeCall("copy_rates_from_pos",
                             <<request.symbol, request.timeframe, request.start,
                               request.count>>, <<>>)>>,
                _numpy_to_proto(nat))

CopyRatesRange(request, nat) ==
    IF ~_validate_symbol(request.symbol, "CopyRatesRange")
    THEN Return(<<>>, _numpy_to_proto(None))
    ELSE IF ~_validate_date_range(PyInt(request.date_from), PyInt(request.date_to),
                                  "CopyRatesRange")
    THEN Return(<<>>, _numpy_to_proto(None))
    ELSE Return(<<NativeCall("copy_rates_range",
                             <<request.symbol, request.timeframe, request.date_from,
                               request.date_to>>, <<>>)>>,
                _numpy_to_proto(nat))

CopyTicksFrom(request, nat) ==
    IF ~_validate_symbol(request.symbol, "CopyTicksFrom")
    THEN Return(<<>>, _numpy_to_proto(None))
    ELSE IF ~_validate_count(request.count, "CopyTicksFrom")
    THEN Return(<<>>, _numpy_to_proto(None))
    ELSE Return(<<NativeCall("copy_ticks_from",
                             <<request.symbol, request.start, request.count,
                               request.flags>>, <<>>)>>,
                _numpy_to_proto(nat))

CopyTicksRange(request, nat) ==
    IF ~_validate_symbol(request.symbol, "CopyTicksRange")
    THEN Return(<<>>, _numpy_to_proto(None))
    ELSE IF ~_validate_date_range(PyInt(request.date_from), PyInt(request.date_to),
                                  "CopyTicksRange")
    THEN Return(<<>>, _numpy_to_proto(None))
    ELSE Return(<<NativeCall("copy_ticks_range",
                             <<request.symbol, request.date_from, request.date_to,
                               request.flags>>, <<>>)>>,
                _numpy_to_proto(nat))

\* a sentinel where the code answers with the empty message
OrderCalcMargin_sentinel(request, nat) ==
    LET calls == <<NativeCall("order_calc_margin",
                              <<request.action, request.symbol, request.volume,
                                request.price>>, <<>>)>>
    IN  IF nat = None THEN Return(calls, FloatResponse(0 - 1))
        ELSE Return(calls, FloatResponse(ValueOf(nat)))

OrderCalcMargin(request, nat) ==
    LET calls == <<NativeCall("order_calc_margin",
                              <<request.action, request.symbol, request.volume,
                                request.price>>, <<>>)>>
    IN  IF nat = None THEN Return(calls, FloatResponseEmpty)
        ELSE Return(calls, FloatResponse(ValueOf(nat)))

OrderCalcProfit(request, nat) ==
    LET calls == <<NativeCall("order_calc_profit",
                              <<request.action, request.symbol, request.volume,
                                request.price_open, request.price_close>>, <<>>)>>
    IN  IF nat = None THEN Return(calls, FloatResponseEmpty)
        ELSE Return(calls, FloatResponse(ValueOf(nat)))

OrderCheck(request, nat) ==
    IF ~JsonWellFormed(request.json_request)
    THEN Raise(<<>>, "JSONDecodeError", request.json_request)
    ELSE LET order_dict == JsonLoads(request.json_request)
             data == _materialize_single(nat, "order_check", <<"request">>)
         IN  Return(<<NativeCall("order_check", <<order_dict>>, <<>>)>>,
                    DictData(_dict_to_json(data)))

OrderSend(request, nat) ==
    IF ~JsonWellFormed(request.json_request)
    THEN Raise(<<>>, "JSONDecodeError", request.json_request)
    ELSE LET order_dict == JsonLoads(request.json_request)
             data == _materialize_single(nat, "order_send", <<"request">>)
         IN  Return(<<NativeCall("order_send", <<order_dict>>, <<>>)>>,
                    DictData(_dict_to_json(data)))

PositionsTotal(request, nat) ==
    Return(<<NativeCall("positions_total", <<>>, <<>>)>>,
           IntResponse(IF nat # None THEN ValueOf(nat) ELSE 0))

\* json_items = [json.dumps(item) for item in items], or [] when items is None
JsonItems(items) ==
    IF items = None THEN <<>>
    ELSE [i \in 1 .. Len(ValueOf(items)) |-> JsonDumps(ValueOf(items)[i])]

PositionsGet(request, nat) ==
    LET symbol == request.symbol
        group == request.group
        ticket == request.ticket
        kwargs == Kw("symbol", TruthyText(symbol), FieldOr(symbol, EmptyText))
                  \o Kw("group", TruthyText(group), FieldOr(group, EmptyText))
                  \o Kw("ticket", TruthyInt(ticket), FieldOr(ticket, 0))
        items == _materialize_tuple(nat, "positions_get")
    IN  Return(<<NativeCall("positions_get", <<>>, kwargs)>>, DictList(JsonItems(items)))

OrdersTotal(request, nat) ==
    Return(<<NativeCall("orders_total", <<>>, <<>>)>>,
           IntResponse(IF nat # None THEN ValueOf(nat) ELSE 0))

OrdersGet(request, nat) ==
    LET symbol == request.symbol
        group == request.group
        ticket == request.ticket
        kwargs == Kw("symbol", TruthyText(symbol), FieldOr(symbol, EmptyText))
                  \o Kw("group", TruthyText(group), FieldOr(group, EmptyText))
                  \o Kw("ticket", TruthyInt(ticket), FieldOr(ticket, 0))
        items == _materialize_tuple(nat, "orders_get")
    IN  Return(<<NativeCall("orders_get", <<>>, kwargs)>>, DictList(JsonItems(items)))

HistoryOrdersTotal(request, nat) ==
    LET date_from == FieldOr(request.date_from, 0)
        date_to == FieldOr(request.date_to, 0)
    IN  Return(<<NativeCall("history_orders_total", <<date_from, date_to>>, <<>>)>>,
               IntResponse(IF nat # None THEN ValueOf(nat) ELSE 0))

HistoryOrdersGet(request, nat) ==
    LET date_from == request.date_from
        date_to == request.date_to
        kwargs == Kw("group", TruthyText(request.group), FieldOr(request.group, EmptyText))
                  \o Kw("ticket", TruthyInt(request.ticket), FieldOr(request.ticket, 0))
                  \o Kw("position", TruthyInt(request.position),
                        FieldOr(request.position, 0))
        args == IF date_from # None /\ date_to # None
                THEN <<ValueOf(date_from), ValueOf(date_to)>> ELSE <<>>
        items == _materialize_tuple(nat, "history_orders_get")
    IN  Return(<<NativeCall("history_orders_get", args, kwargs)>>,
               DictList(JsonItems(items)))

HistoryDealsTotal(request, nat) ==
    LET date_from == FieldOr(request.date_from, 0)
        date_to == FieldOr(request.date_to, 0)
    IN  Return(<<NativeCall("history_deals_total", <<date_from, date_to>>, <<>>)>>,
               IntResponse(IF nat # None THEN ValueOf(nat) ELSE 0))

HistoryDealsGet(request, nat) ==
    LET date_from == request.date_from
        date_to == request.date_to
        kwargs == Kw("group", TruthyText(request.group), FieldOr(request.group, EmptyText))
                  \o Kw("ticket", TruthyInt(request.ticket), FieldOr(request.ticket, 0))
                  \o Kw("position", TruthyInt(request.position),
                        FieldOr(request.position, 0))
        args == IF date_from # None /\ date_to # None
                THEN <<ValueOf(date_from), ValueOf(date_to)>> ELSE <<>>
        items == _materialize_tuple(nat, "history_deals_get")
    IN  Return(<<NativeCall("history_deals_get", args, kwargs)>>,
               DictList(JsonItems(items)))

MarketBookAdd(request, nat) ==
    IF ~_validate_symbol(request.symbol, "MarketBookAdd")
    THEN Return(<<>>, BoolResponse(FALSE))
    ELSE Return(<<NativeCall("market_book_add", <<request.symbol>>, <<>>)>>,
                BoolResponse(PyBool(nat)))

MarketBookGet(request, nat) ==
    IF ~_validate_symbol(request.symbol, "MarketBookGet")
    THEN Return(<<>>, DictList(<<>>))
    ELSE LET items == _materialize_tuple(nat, "market_book_get")
         IN  Return(<<NativeCall("market_book_get", <<request.symbol>>, <<>>)>>,
                    DictList(JsonItems(items)))

MarketBookRelease(request, nat) ==
    IF ~_validate_symbol(request.symbol, "MarketBookRelease")
    THEN Return(<<>>, BoolResponse(FALSE))
    ELSE Return(<<NativeCall("market_book_release", <<request.symbol>>, <<>>)>>,
                BoolResponse(PyBool(nat)))

(***************************************************************************)
(* GetConstants: the fixed catalogue of names it probes, by category.      *)
(***************************************************************************)
\* Timeframes
CatalogueTimeframes ==
    <<"TIMEFRAME_M1", "TIMEFRAME_M2", "TIMEFRAME_M3", "TIMEFRAME_M4", "TIMEFRAME_M5",
      "TIMEFRAME_M6", "TIMEFRAME_M10", "TIMEFRAME_M12", "TIMEFRAME_M15",
      "TIMEFRAME_M20", "TIMEFRAME_M30", "TIMEFRAME_H1", "TIMEFRAME_H2", "TIMEFRAME_H3",
      "TIMEFRAME_H4", "TIMEFRAME_H6", "TIMEFRAME_H8", "TIMEFRAME_H12", "TIMEFRAME_D1",
      "TIMEFRAME_W1", "TIMEFRAME_MN1">>

\* Order types
CatalogueOrderTypes ==
    <<"ORDER_TYPE_BUY", "ORDER_TYPE_SELL", "ORDER_TYPE_BUY_LIMIT",
      "ORDER_TYPE_SELL_LIMIT", "ORDER_TYPE_BUY_STOP", "ORDER_TYPE_SELL_STOP",
      "ORDER_TYPE_BUY_STOP_LIMIT", "ORDER_TYPE_SELL_STOP_LIMIT", "ORDER_TYPE_CLOSE_BY">>

\* Trade actions
CatalogueTradeActions ==
    <<"TRADE_ACTION_DEAL", "TRADE_ACTION_PENDING", "TRADE_ACTION_SLTP",
      "TRADE_ACTION_MODIFY", "TRADE_ACTION_REMOVE", "TRADE_ACTION_CLOSE_BY">>

\* Order filling modes
CatalogueOrderFillingModes ==
    <<"ORDER_FILLING_FOK", "ORDER_FILLING_IOC", "ORDER_FILLING_RETURN",
      "ORDER_FILLING_BOC">>

\* Order time types
CatalogueOrderTimeTypes ==
    <<"ORDER_TIME_GTC", "ORDER_TIME_DAY", "ORDER_TIME_SPECIFIED",
      "ORDER_TIME_SPECIFIED_DAY">>

\* Order states
CatalogueOrderStates ==
    <<"ORDER_STATE_STARTED", "ORDER_STATE_PLACED", "ORDER_STATE_CANCELED",
      "ORDER_STATE_PARTIAL", "ORDER_STATE_FILLED", "ORDER_STATE_REJECTED",
      "ORDER_STATE_EXPIRED", "ORDER_STATE_REQUEST_ADD", "ORDER_STATE_REQUEST_MODIFY",
      "ORDER_STATE_REQUEST_CANCEL">>

\* Position types
CataloguePositionTypes ==
    <<"POSITION_TYPE_BUY", "POSITION_TYPE_SELL">>

\* Position reasons
CataloguePositionReasons ==
    <<"POSITION_REASON_CLIENT", "POSITION_REASON_MOBILE", "POSITION_REASON_WEB",
      "POSITION_REASON_EXPERT">>

\* Deal types
CatalogueDealTypes ==
    <<"DEAL_TYPE_BUY", "DEAL_TYPE_SELL", "DEAL_TYPE_BALANCE", "DEAL_TYPE_CREDIT",
      "DEAL_TYPE_CHARGE", "DEAL_TYPE_CORRECTION", "DEAL_TYPE_BONUS",
      "DEAL_TYPE_COMMISSION", "DEAL_TYPE_COMMISSION_DAILY",
      "DEAL_TYPE_COMMISSION_MONTHLY", "DEAL_TYPE_COMMISSION_AGENT_DAILY",
      "DEAL_TYPE_COMMISSION_AGENT_MONTHLY", "DEAL_TYPE_INTEREST",
      "DEAL_TYPE_BUY_CANCELED", "DEAL_TYPE_SELL_CANCELED", "DEAL_DIVIDEND",
      "DEAL_DIVIDEND_FRANKED", "DEAL_TAX">>

\* Deal entry types
CatalogueDealEntryTypes ==
    <<"DEAL_ENTRY_IN", "DEAL_ENTRY_OUT", "DEAL_ENTRY_INOUT", "DEAL_ENTRY_OUT_BY">>

\* Deal reasons
CatalogueDealReasons ==
    <<"DEAL_REASON_CLIENT", "DEAL_REASON_MOBILE", "DEAL_REASON_WEB",
      "DEAL_REASON_EXPERT", "DEAL_REASON_SL", "DEAL_REASON_TP", "DEAL_REASON_SO",
      "DEAL_REASON_ROLLOVER", "DEAL_REASON_VMARGIN", "DEAL_REASON_SPLIT">>

\* Copy ticks flags
CatalogueCopyTicksFlags ==
    <<"COPY_TICKS_ALL", "COPY_TICKS_INFO", "COPY_TICKS_TRADE">>

\* Book types (Market Depth)
CatalogueBookTypes ==
    <<"BOOK_TYPE_SELL", "BOOK_TYPE_BUY", "BOOK_TYPE_SELL_MARKET",
      "BOOK_TYPE_BUY_MARKET">>

\* Symbol trade modes
CatalogueSymbolTradeModes ==
    <<"SYMBOL_TRADE_MODE_DISABLED", "SYMBOL_TRADE_MODE_LONGONLY",
      "SYMBOL_TRADE_MODE_SHORTONLY", "SYMBOL_TRADE_MODE_CLOSEONLY",
      "SYMBOL_TRADE_MODE_FULL">>

\* Account trade modes
CatalogueAccountTradeModes ==
    <<"ACCOUNT_TRADE_MODE_DEMO", "ACCOUNT_TRADE_MODE_CONTEST",
      "ACCOUNT_TRADE_MODE_REAL">>

\* Trade return codes
CatalogueTradeReturnCodes ==
    <<"TRADE_RETCODE_REQUOTE", "TRADE_RETCODE_REJECT", "TRADE_RETCODE_CANCEL",
      "TRADE_RETCODE_PLACED", "TRADE_RETCODE_DONE", "TRADE_RETCODE_DONE_PARTIAL",
      "TRADE_RETCODE_ERROR", "TRADE_RETCODE_TIMEOUT", "TRADE_RETCODE_INVALID",
      "TRADE_RETCODE_INVALID_VOLUME", "TRADE_RETCODE_INVALID_PRICE",
      "TRADE_RETCODE_INVALID_STOPS", "TRADE_RETCODE_TRADE_DISABLED",
      "TRADE_RETCODE_MARKET_CLOSED", "TRADE_RETCODE_NO_MONEY",
      "TRADE_RETCODE_PRICE_CHANGED", "TRADE_RETCODE_PRICE_OFF",
      "TRADE_RETCODE_INVALID_EXPIRATION", "TRADE_RETCODE_ORDER_CHANGED",
      "TRADE_RETCODE_TOO_MANY_REQUESTS", "TRADE_RETCODE_NO_CHANGES",
      "TRADE_RETCODE_LOCKED", "TRADE_RETCODE_FROZEN", "TRADE_RETCODE_INVALID_FILL",
      "TRADE_RETCODE_CONNECTION", "TRADE_RETCODE_ONLY_REAL",
      "TRADE_RETCODE_LIMIT_ORDERS", "TRADE_RETCODE_LIMIT_VOLUME">>

\* the categories in the order GetConstants probes them
Catalogue ==
    <<CatalogueTimeframes,
      CatalogueOrderTypes,
      CatalogueTradeActions,
      CatalogueOrderFillingModes,
      CatalogueOrderTimeTypes,
      CatalogueOrderStates,
      CataloguePositionTypes,
      CataloguePositionReasons,
      CatalogueDealTypes,
      CatalogueDealEntryTypes,
      CatalogueDealReasons,
      CatalogueCopyTicksFlags,
      CatalogueBookTypes,
      CatalogueSymbolTradeModes,
      CatalogueAccountTradeModes,
      CatalogueTradeReturnCodes>>

RECURSIVE Flatten(_)
Flatten(seqs) == IF seqs = <<>> THEN <<>> ELSE Head(seqs) \o Flatten(Tail(seqs))
CatalogueNames == {Flatten(Catalogue)[i] : i \in 1 .. Len(Flatten(Catalogue))}

\* The native module's namespace: which catalogue names it lacks, which it defines
\* with a value that is no int, and what it defines outside the catalogue.
Namespaces ==
    {[missing |-> {}, nonint |-> {}, extra |-> {"symbol_info", "TIMEFRAME_Y1"}],
     [missing |-> CatalogueNames \ {Flatten(<<CatalogueTimeframes, CatalogueOrderTypes,
                                              CatalogueTradeActions>>)[i] : i \in 1 .. 36},
      nonint |-> {}, extra |-> {}],
     [missing |-> {"ORDER_FILLING_BOC", "DEAL_TAX"}, nonint |-> {}, extra |-> {}],
     [missing |-> {}, nonint |-> {"TIMEFRAME_M1", "COPY_TICKS_ALL"}, extra |-> {}]}
hasattr(mt5, name) == name \in mt5.extra \/ (name \in CatalogueNames /\ name \notin mt5.missing)
\* the value the module gives a name it defines as an int
getattr(mt5, name) == CHOOSE i \in 1 .. Len(Flatten(Catalogue)) : Flatten(Catalogue)[i] = name
\* (a check that takes every value for an int)
isinstance_anything(mt5, name) == TRUE
isinstance_int(mt5, name) == name \notin mt5.nonint /\ name \in CatalogueNames

\* (an _add_constants that returns after the first name of the list)
_add_constants_first_only(constants, mt5, names) ==
    LET added == {names[i] : i \in {j \in 1 .. Len(names) :
                      j = 1 /\ hasattr(mt5, names[j]) /\ isinstance_int(mt5, names[j])}}
    IN  [n \in DOMAIN constants \cup added |->
            IF n \in added THEN getattr(mt5, n) ELSE constants[n]]
\* constants after _add_constants(names): a function from the names added to their
\* values (a later assignment to a name already there overwrites it)
_add_constants(constants, mt5, names) ==
    LET added == {names[i] : i \in {j \in 1 .. Len(names) :
                      hasattr(mt5, names[j]) /\ isinstance_int(mt5, names[j])}}
    IN  [n \in DOMAIN constants \cup added |->
            IF n \in added THEN getattr(mt5, n) ELSE constants[n]]

RECURSIVE AddCategories(_, _, _)
AddCategories(constants, mt5, categories) ==
    IF categories = <<>> THEN constants
    ELSE AddCategories(_add_constants(constants, mt5, Head(categories)), mt5,
                       Tail(categories))

GetConstants(request, mt5) ==
    Return(<<>>, [type |-> "Constants", values |-> AddCategories(<<>>, mt5, Catalogue)])

\* what the native function behind each method can return (None: no result)
NativeResults(m) ==
    CASE m = "HealthCheck" -> Opt(TerminalRecords)
      [] m = "TerminalInfo" -> Opt(TerminalRecords)
      [] m \in {"Initialize", "Login", "SymbolSelect", "MarketBookAdd",
                "MarketBookRelease"} -> Opt(BOOLEAN)
      [] m = "Shutdown" -> {None}
      [] m = "Version" -> Opt({<<500, 4000, "1 Jan 2024">>})
      [] m = "LastError" -> {Some(e) : e \in ErrorTuples}
      [] m = "GetConstants" -> Namespaces
      [] m \in {"AccountInfo", "SymbolInfo", "SymbolInfoTick"} ->
            Opt({NT([login |-> 1, bid |-> 2, ask |-> 3])})
      [] m \in {"SymbolsTotal", "PositionsTotal", "OrdersTotal"}
              \cup HistoryTotalMethods -> Opt({0, 3})
      [] m \in CopyMethods -> Opt(Arrays)
      [] m \in {"OrderCalcMargin", "OrderCalcProfit"} -> Opt({0, 5})
      [] m \in OrderMethods -> Opt(OrderResults)
      [] m \in {"SymbolsGet", "MarketBookGet"} \cup FilterMethods
              \cup HistoryGetMethods -> Opt(ItemTuples)

MethodBody(m, request, nat, le, mt5_loaded) ==
    CASE m = "HealthCheck" -> HealthCheck(request, nat, le, mt5_loaded)
      [] m = "Initialize" -> Initialize(request, nat)
      [] m = "Login" -> Login(request, nat)
      [] m = "Shutdown" -> Shutdown(request, nat)
      [] m = "Version" -> Version(request, nat)
      [] m = "LastError" -> LastError(request, nat)
      [] m = "GetConstants" -> GetConstants(request, nat)
      [] m = "TerminalInfo" -> TerminalInfo(request, nat)
      [] m = "AccountInfo" -> AccountInfo(request, nat)
      [] m = "SymbolsTotal" -> SymbolsTotal(request, nat)
      [] m = "SymbolsGet" -> SymbolsGet(request, nat)
      [] m = "SymbolInfo" -> SymbolInfo(request, nat)
      [] m = "SymbolInfoTick" -> SymbolInfoTick(request, nat)
      [] m = "SymbolSelect" -> SymbolSelect(request, nat)
      [] m = "CopyRatesFrom" -> CopyRatesFrom(request, nat)
      [] m = "CopyRatesFromPos" -> CopyRatesFromPos(request, nat)
      [] m = "CopyRatesRange" -> CopyRatesRange(request, nat)
      [] m = "CopyTicksFrom" -> CopyTicksFrom(request, nat)
      [] m = "CopyTicksRange" -> CopyTicksRange(request, nat)
      [] m = "OrderCalcMargin" -> OrderCalcMargin(request, nat)
      [] m = "OrderCalcProfit" -> OrderCalcProfit(request, nat)
      [] m = "OrderCheck" -> OrderCheck(request, nat)
      [] m = "OrderSend" -> OrderSend(request, nat)
      [] m = "PositionsTotal" -> PositionsTotal(request, nat)
      [] m = "PositionsGet" -> PositionsGet(request, nat)
      [] m = "OrdersTotal" -> OrdersTotal(request, nat)
      [] m = "OrdersGet" -> OrdersGet(request, nat)
      [] m = "HistoryOrdersTotal" -> HistoryOrdersTotal(request, nat)
      [] m = "HistoryOrdersGet" -> HistoryOrdersGet(request, nat)
      [] m = "HistoryDealsTotal" -> HistoryDealsTotal(request, nat)
      [] m = "HistoryDealsGet" -> HistoryDealsGet(request, nat)
      [] m = "MarketBookAdd" -> MarketBookAdd(request, nat)
      [] m = "MarketBookGet" -> MarketBookGet(request, nat)
      [] m = "MarketBookRelease" -> MarketBookRelease(request, nat)

(***************************************************************************)
(* Worker threads.  A thread serves one call at a time: it enters the      *)
(* method, runs the loader steps (each read, lock operation and assignment *)
(* its own step, so that threads interleave between them), then the body.  *)
(*   pc: idle, ensure_80, ensure_82, health_199, health_203,               *)
(*       load_70, load_71, load_73, load_75, load_exit,                    *)
(*       body, returned, raised                                            *)
(***************************************************************************)
IdleFrame ==
    [method |-> "", request |-> [msg |-> "Empty"], ret |-> "", mt5_loaded |-> FALSE,
     import_error |-> "", calls |-> <<>>, received |-> <<>>, resp |-> NoResponse,
     err |-> NoError]
NewFrame(m, r) == [IdleFrame EXCEPT !.method = m, !.request = r]

Goto(t, label) == pc' = [pc EXCEPT ![t] = label]

\* Every RPC method begins with self._ensure_mt5_loaded(); HealthCheck begins with its
\* own test of the handle (line 199)
\* (a method that goes straight to its validation and native call)
FirstStep_without_ensure(m) == IF m = "HealthCheck" THEN "health_199" ELSE "body"
FirstStep(m) == IF m = "HealthCheck" THEN "health_199" ELSE "ensure_80"

\* a pool thread picks up a call of one of the methods ms (a SymbolInfo call with one
\* of the given symbols)
StartCall(t, ms, symbols) ==
    /\ pc[t] = "idle"
    /\ done < MaxCalls
    /\ done' = done + 1
    /\ \E m \in ms : \E r \in {q \in Requests(m) : m = "SymbolInfo" => q.symbol \in symbols} :
          /\ frame' = [frame EXCEPT ![t] = NewFrame(m, r)]
          /\ Goto(t, FirstStep(m))
    /\ UNCHANGED <<_mt5_module, _mt5_lock, imports, serverVars, helper>>

\* _ensure_mt5_loaded, line 80-81: the check outside the lock
_ensure_mt5_loaded_fast_path(t) ==
    /\ pc[t] = "ensure_80"
    /\ IF _mt5_module = None
       THEN /\ frame' = [frame EXCEPT ![t].ret = "ensure_82"]
            /\ Goto(t, "load_70")
       ELSE /\ Goto(t, "ensure_82")
            /\ UNCHANGED frame
    /\ UNCHANGED <<_mt5_module, _mt5_lock, imports, done, serverVars, helper>>

\* HealthCheck, lines 199-202: mt5_loaded = module is not None; load when it is not
HealthCheck_load_attempt(t) ==
    /\ pc[t] = "health_199"
    /\ IF _mt5_module = None
       THEN /\ frame' = [frame EXCEPT ![t].ret = "health_203"]
            /\ Goto(t, "load_70")
       ELSE /\ frame' = [frame EXCEPT ![t].mt5_loaded = TRUE]
            /\ Goto(t, "body")
    /\ UNCHANGED <<_mt5_module, _mt5_lock, imports, done, serverVars, helper>>

\* _load_mt5, line 70: with MT5ServiceServicer._mt5_lock (an RLock) -- acquire
_load_mt5_acquire(t) ==
    /\ pc[t] = "load_70"
    /\ _mt5_lock.owner \in {NoThread, t}
    /\ _mt5_lock' = [owner |-> t, count |-> _mt5_lock.count + 1]
    /\ Goto(t, "load_71")
    /\ UNCHANGED <<_mt5_module, imports, frame, done, serverVars, helper>>

\* the RLock after one release by its owner
Released(lock) ==
    IF lock.count = 1 THEN [owner |-> NoThread, count |-> 0]
    ELSE [lock EXCEPT !.count = @ - 1]

\* _load_mt5, line 71: the check under the lock
\* (a loader without the second check imports whenever it gets the lock)
_load_mt5_recheck_skipped == TRUE
_load_mt5_recheck == _mt5_module = None

_load_mt5_check(t) ==
    /\ pc[t] = "load_71"
    /\ Goto(t, IF _load_mt5_recheck THEN "load_73" ELSE "load_exit")
    /\ UNCHANGED <<_mt5_module, _mt5_lock, imports, frame, done, serverVars, helper>>

\* _load_mt5, line 73: import MetaTrader5 succeeds
_load_mt5_import(t) ==
    /\ pc[t] = "load_73"
    /\ imports' = [imports EXCEPT !.ok = @ + 1]
    /\ Goto(t, "load_75")
    /\ UNCHANGED <<_mt5_module, _mt5_lock, frame, done, serverVars, helper>>

\* _load_mt5 has no except clause: an ImportError of line 73 leaves the function
\* (a loader that catches the error and carries on would not let it through)
ImportErrorSwallowed(reason) == FALSE
ImportErrorEscapes(reason) == TRUE

\* _load_mt5, line 73: import MetaTrader5 raises ImportError.  The with block releases
\* the lock; _ensure_mt5_loaded lets the error through to the RPC caller, HealthCheck
\* (lines 204-213) answers with it.
\* HealthCheck, line 204: the load attempt sits in try ... except Exception
\* (a HealthCheck without the except clause)
HealthCheck_catches_nothing(method) == FALSE
HealthCheck_catches(method) == method = "HealthCheck"

\* line 75 is not reached when line 73 raises: the handle keeps its value
\* (a loader that stores a placeholder for the module it could not import)
HandleAfterImportError_placeholder == Some(0)
HandleAfterImportError == _mt5_module

_load_mt5_import_fails(t) ==
    /\ pc[t] = "load_73"
    /\ _mt5_module' = HandleAfterImportError
    /\ \E reason \in ImportFailures :
          /\ imports' = [imports EXCEPT !.failed = @ + 1]
          /\ IF ~ImportErrorEscapes(reason)
             THEN /\ frame' = [frame EXCEPT ![t].import_error = reason]
                  /\ Goto(t, "load_exit")
                  /\ UNCHANGED _mt5_lock
             ELSE /\ _mt5_lock' = Released(_mt5_lock)
                  /\ IF HealthCheck_catches(frame[t].method)
                     THEN /\ frame' = [frame EXCEPT ![t].import_error = reason,
                                                    ![t].resp = HealthCheckLoadFailed(reason)]
                          /\ Goto(t, "returned")
                     ELSE /\ frame' = [frame EXCEPT ![t].import_error = reason,
                                                    ![t].err =
                                         [kind |-> "ImportError", reason |-> reason,
                                          at |-> "ensure"]]
                          /\ Goto(t, "raised")
    /\ UNCHANGED <<done, serverVars, helper>>

\* _load_mt5, line 75: MT5ServiceServicer._mt5_module = MetaTrader5
_load_mt5_store(t) ==
    /\ pc[t] = "load_75"
    /\ _mt5_module' = Some(imports.ok)
    /\ Goto(t, "load_exit")
    /\ UNCHANGED <<_mt5_lock, imports, frame, done, serverVars, helper>>

\* _load_mt5, end of the with block: release, and return to the caller
_load_mt5_release(t) ==
    /\ pc[t] = "load_exit"
    /\ _mt5_lock' = Released(_mt5_lock)
    /\ Goto(t, frame[t].ret)
    /\ UNCHANGED <<_mt5_module, imports, frame, done, serverVars, helper>>

\* _ensure_mt5_loaded, lines 82-84: raise RuntimeError when still not loaded
_ensure_mt5_loaded_verify(t) ==
    /\ pc[t] = "ensure_82"
    /\ IF _mt5_module = None
       THEN /\ frame' = [frame EXCEPT ![t].err =
                           [kind |-> "RuntimeError", reason |-> "MT5 module not loaded",
                            at |-> "ensure"]]
            /\ Goto(t, "raised")
       ELSE /\ Goto(t, "body")
            /\ UNCHANGED frame
    /\ UNCHANGED <<_mt5_module, _mt5_lock, imports, done, serverVars, helper>>

\* HealthCheck, line 203: mt5_loaded = MT5ServiceServicer._mt5_module is not None
HealthCheck_after_load(t) ==
    /\ pc[t] = "health_203"
    /\ frame' = [frame EXCEPT ![t].mt5_loaded = (_mt5_module # None)]
    /\ Goto(t, "body")
    /\ UNCHANGED <<_mt5_module, _mt5_lock, imports, done, serverVars, helper>>

\* Shutdown (lines 302-310) calls the native shutdown() and leaves the handle alone
\* (a Shutdown that drops the handle after closing the terminal connection)
Shutdown_clears_handle == None
Shutdown_handle == _mt5_module

\* What the native module gave to a call of m with outcome out: nothing when the
\* method made no native call, else the answer nat, and for a HealthCheck that went on
\* to last_error() also the error tuple le.  GetConstants calls no function: it reads
\* the module's attributes, here nat.
Received(m, out, nat, le) ==
    IF m = "GetConstants" THEN <<nat>>
    ELSE IF out.calls = <<>> THEN <<>>
    ELSE IF Len(out.calls) = 2 THEN <<nat, le>>
    ELSE <<nat>>

\* result = MT5ServiceServicer._mt5_module.<function>(...): each method keeps the
\* native answer in a local variable of the call
\* (a method that keeps the answer in an attribute shared by the calls, and reuses it)
native_result_shared(t, nat) ==
    IF \E u \in Workers \ {t} :
           pc[u] = "returned" /\ frame[u].method = frame[t].method
                              /\ frame[u].received # <<>>
    THEN LET u == CHOOSE u \in Workers \ {t} :
                      pc[u] = "returned" /\ frame[u].method = frame[t].method
                                         /\ frame[u].received # <<>>
         IN  frame[u].received[1]
    ELSE nat
native_result(t, nat) == nat

\* The rest of the method: validation, the native call (its answer is the native
\* module's choice), marshaling.  A native call on a handle that is None fails.
Body(t) ==
    /\ pc[t] = "body"
    /\ LET m == frame[t].method
       IN  IF m # "HealthCheck" /\ _mt5_module = None
           THEN /\ frame' = [frame EXCEPT ![t].err =
                               [kind |-> "AttributeError", reason |-> "NoneType",
                                at |-> "body"]]
                /\ Goto(t, "raised")
                /\ UNCHANGED _mt5_module
           ELSE \E nat \in NativeResults(m) : \E le \in ErrorTuples :
                   LET out == MethodBody(m, frame[t].request, native_result(t, nat), le,
                                         frame[t].mt5_loaded)
                   IN  /\ frame' = [frame EXCEPT ![t].calls = out.calls,
                                                 ![t].received = Received(m, out, nat, le),
                                                 ![t].resp = out.resp,
                                                 ![t].err = out.err]
                       /\ Goto(t, IF out.err = NoError THEN "returned" ELSE "raised")
                       /\ _mt5_module' = IF m = "Shutdown" THEN Shutdown_handle
                                         ELSE _mt5_module
    /\ UNCHANGED <<_mt5_lock, imports, done, serverVars, helper>>

\* the response (or the error) goes back to the client; the thread is free again
EndCall(t) ==
    /\ pc[t] \in {"returned", "raised"}
    /\ frame' = [frame EXCEPT ![t] = IdleFrame]
    /\ Goto(t, "idle")
    /\ UNCHANGED <<_mt5_module, _mt5_lock, imports, done, serverVars, helper>>

(***************************************************************************)
(* Server runtime: main(), the signal handler _graceful_shutdown and the   *)
(* grpc server object they share through the module global _server.        *)
(*                                                                         *)
(* Python runs a signal handler on the main thread, between two of its     *)
(* bytecodes, on top of whatever the main thread was doing; a handler can  *)
(* itself be interrupted by the next signal.  sys.exit raises SystemExit   *)
(* at the point of interruption.  The model starts when main() has         *)
(* installed the handlers (line 1057).                                     *)
(*   mainPc: m_1064 (create server), m_1066 (register and bind),           *)
(*           m_1069 (start), m_1071 (wait_for_termination),                *)
(*           m_1075 (except Exception: log), m_1076 (return 1),            *)
(*           m_1078 (finally: stop), m_1080 (finally: log),                *)
(*           m_1082 (return 0), m_1086 (sys.exit(main())), exited          *)
(*   handler frame: h_1034 (stop the server), h_1036 (sys.exit(0))         *)
(*   stage: NONE (no server object), NEW (constructed, not started),       *)
(*          STARTED, GRACE (shutting down), STOPPED                        *)
(***************************************************************************)
\* termination signals delivered to one run
MaxSignals == 2
\* seconds that may pass before the server starts shutting down
MaxTime == 1
\* calls the server runtime has in flight at most
MaxInFlight == 2

\* signal numbers of the signals main() handles (lines 1056-1057)
SIGTERM == 15
SIGINT == 2
Signals == {SIGTERM, SIGINT}
\* _graceful_shutdown: _server.stop(grace=5)
HandlerGrace == 5
\* main, finally: _server.stop(grace=0)
FinallyGrace == 0

CallIds == 1 .. MaxInFlight

Min(a, b) == IF a <= b THEN a ELSE b

InitBridge ==
    /\ _mt5_module = None
    /\ _mt5_lock = [owner |-> NoThread, count |-> 0]
    /\ imports = [ok |-> 0, failed |-> 0]
    /\ pc = [t \in Workers |-> "idle"]
    /\ frame = [t \in Workers |-> IdleFrame]
    /\ done = 0

InitServer ==
    /\ mainPc = "m_1064"
    /\ handlers = <<>>
    /\ pending = None
    /\ _server = "None"
    /\ stage = "NONE"
    /\ deadline = None
    /\ clock = 0
    /\ rpc = [c \in CallIds |-> "none"]
    /\ exitCode = None
    /\ sigLog = [count |-> 0, first |-> None, inflight |-> {}]
    /\ faulted = FALSE

\* no helper has been applied on its own
NoHelperCall == [fn |-> "", args |-> <<>>, out |-> <<>>]

Init == InitBridge /\ InitServer /\ helper = NoHelperCall

WorkerStep(t) ==
    \/ _ensure_mt5_loaded_fast_path(t)
    \/ HealthCheck_load_attempt(t)
    \/ _load_mt5_acquire(t)
    \/ _load_mt5_check(t)
    \/ _load_mt5_import(t)
    \/ _load_mt5_import_fails(t)
    \/ _load_mt5_store(t)
    \/ _load_mt5_release(t)
    \/ _ensure_mt5_loaded_verify(t)
    \/ HealthCheck_after_load(t)
    \/ Body(t)
    \/ EndCall(t)

\* the methods the racing threads of Spec call: one that loads through HealthCheck,
\* one that touches the terminal connection, one that validates a parameter
ConcurrentMethods == {"HealthCheck", "Shutdown", "SymbolInfo"}

ConcurrentSymbols == {EmptyText, <<"E">>}

Next == \E t \in Workers : StartCall(t, ConcurrentMethods, ConcurrentSymbols) \/ WorkerStep(t)

Spec == Init /\ [][Next]_vars

\* one worker thread, every method, every request
NextRpc == StartCall(1, Methods, Texts) \/ WorkerStep(1)

SpecRpc == Init /\ [][NextRpc]_vars

(***************************************************************************)
(* Module loader: claims checked under Spec.                               *)
(***************************************************************************)
InCall(t) == frame[t].method # ""
PastLoader(t) ==
    \/ pc[t] \in {"body", "returned"}
    \/ pc[t] = "raised" /\ frame[t].err.at = "body"
RaisedInLoader(t) == pc[t] = "raised" /\ frame[t].err.at = "ensure"

\* C1: on a cold process where the import succeeds (no import has failed), however the
\* worker threads interleave, "import MetaTrader5" is executed at most once, no call
\* fails in the loader, and every call that got past the loader finds the handle
\* loaded by exactly one import.
C1_ImportedExactlyOnce ==
    imports.failed = 0 =>
        /\ imports.ok <= 1
        /\ \A t \in Workers :
              /\ ~RaisedInLoader(t)
              /\ InCall(t) /\ PastLoader(t) => _mt5_module # None /\ imports.ok = 1

\* every worker saw the handle unloaded at line 80 in the same burst of calls, all of
\* them have returned, and a single import served them
C1_Witness ==
    /\ imports = [ok |-> 1, failed |-> 0]
    /\ \A t \in Workers : frame[t].ret = "ensure_82" /\ pc[t] = "returned"

\* C2: once the handle is non-null, no step of any call (loader, HealthCheck,
\* Shutdown, any method body) changes it.
C2_HandleNeverReassigned ==
    [][_mt5_module # None => _mt5_module' = _mt5_module]_vars

\* a Shutdown call and a HealthCheck call have both run to their end on a loaded handle
C2_Witness ==
    /\ _mt5_module # None
    /\ \E t, u \in Workers :
          /\ frame[t].method = "Shutdown" /\ pc[t] = "returned"
          /\ frame[u].method = "HealthCheck" /\ pc[u] = "returned"
          /\ frame[u].resp.mt5_available

\* C3: a call of _ensure_mt5_loaded is past the loader only with the handle loaded, and
\* when it fails instead, the error it raises carries the reason with which the import
\* of this very call failed.
C3_LoadedOrImportFailure ==
    \A t \in Workers :
        InCall(t) /\ frame[t].method # "HealthCheck" =>
            /\ PastLoader(t) => _mt5_module # None
            /\ RaisedInLoader(t) =>
                  /\ frame[t].import_error \in ImportFailures
                  /\ frame[t].err.reason = frame[t].import_error

\* one call failed in the loader with its import error while another one got through
C3_Witness ==
    \E t, u \in Workers :
        /\ RaisedInLoader(t) /\ frame[t].err.reason = "DLL load failed"
        /\ InCall(u) /\ frame[u].method # "HealthCheck" /\ pc[u] = "returned"

(***************************************************************************)
(* RPC methods: claims checked under SpecRpc.                              *)
(***************************************************************************)
\* C4: the only error a call lets through to its caller is the one of the loader; with
\* the module loaded every call ends with a response.
C4_OnlyLoaderErrorsPropagate ==
    \A t \in Workers :
        pc[t] = "raised" => frame[t].err.at = "ensure" /\ _mt5_module = None

EmptyNumpyArray == [type |-> "NumpyArray", data |-> <<>>, dtype |-> "", shape |-> <<>>]

\* the native copy function behind each copy method
CopyFunction(m) ==
    CASE m = "CopyRatesFrom" -> "copy_rates_from"
      [] m = "CopyRatesFromPos" -> "copy_rates_from_pos"
      [] m = "CopyRatesRange" -> "copy_rates_range"
      [] m = "CopyTicksFrom" -> "copy_ticks_from"
      [] m = "CopyTicksRange" -> "copy_ticks_range"

C10_EmptySymbolShortCircuits ==
    \A t \in Workers :
        /\ pc[t] \in {"returned", "raised"}
        /\ frame[t].method \in SymbolMethods \cup {"SymbolSelect"}
        /\ frame[t].request.symbol = EmptyText
        /\ _mt5_module # None
        => /\ pc[t] = "returned"
           /\ frame[t].calls = <<>>
           /\ frame[t].resp =
                 CASE frame[t].method \in {"SymbolInfo", "SymbolInfoTick"} ->
                          [type |-> "DictData", json_data |-> EmptyText]
                   [] frame[t].method \in {"SymbolSelect", "MarketBookAdd",
                                           "MarketBookRelease"} ->
                          [type |-> "BoolResponse", result |-> FALSE]
                   [] frame[t].method = "MarketBookGet" ->
                          [type |-> "DictList", json_items |-> <<>>]

\* MarketBookGet was called with the empty symbol on a loaded module and has answered
C10_Witness ==
    \E t \in Workers :
        /\ pc[t] = "returned" /\ _mt5_module # None
        /\ frame[t].method = "MarketBookGet"
        /\ frame[t].request.symbol = EmptyText

(***************************************************************************)
(* The grpc server, as the runtime drives it.                              *)
(***************************************************************************)
\* grpc.Server.stop(grace): no effect on a server that was never started or has
\* stopped; otherwise the server stops accepting calls at once and cancels the calls
\* still running when the shortest grace given so far has passed.
StageAfterStop == IF stage = "STARTED" THEN "GRACE" ELSE stage
DeadlineAfterStop(grace) ==
    IF stage = "STARTED" THEN Some(clock + grace)
    ELSE IF stage = "GRACE" THEN Some(Min(ValueOf(deadline), clock + grace))
    ELSE deadline

Running == {c \in CallIds : rpc[c] = "running"}

\* the started server takes up a call
Accept(c) ==
    /\ stage = "STARTED"
    /\ rpc[c] = "none"
    /\ rpc' = [rpc EXCEPT ![c] = "running"]
    /\ UNCHANGED <<mainPc, handlers, pending, _server, stage, deadline, clock, exitCode,
                   sigLog, faulted, bridgeVars, helper>>

\* a call in flight returns its response
Finish(c) ==
    /\ rpc[c] = "running"
    /\ rpc' = [rpc EXCEPT ![c] = "finished"]
    /\ UNCHANGED <<mainPc, handlers, pending, _server, stage, deadline, clock, exitCode,
                   sigLog, faulted, bridgeVars, helper>>

\* the grace has passed: the server cancels every call still running
CancelAll ==
    /\ stage = "GRACE"
    /\ clock >= ValueOf(deadline)
    /\ Running # {}
    /\ rpc' = [c \in CallIds |-> IF rpc[c] = "running" THEN "aborted" ELSE rpc[c]]
    /\ UNCHANGED <<mainPc, handlers, pending, _server, stage, deadline, clock, exitCode,
                   sigLog, faulted, bridgeVars, helper>>

\* no call is left: the server has stopped
Terminate ==
    /\ stage = "GRACE"
    /\ Running = {}
    /\ stage' = "STOPPED"
    /\ UNCHANGED <<mainPc, handlers, pending, _server, deadline, clock, rpc, exitCode,
                   sigLog, faulted, bridgeVars, helper>>

\* a second passes; the grace timer fires on time
Tick ==
    /\ IF stage = "GRACE" THEN clock < ValueOf(deadline)
       ELSE stage # "STOPPED" /\ exitCode = None /\ clock < MaxTime
    /\ clock' = clock + 1
    /\ UNCHANGED <<mainPc, handlers, pending, _server, stage, deadline, rpc, exitCode,
                   sigLog, faulted, bridgeVars, helper>>

(***************************************************************************)
(* main()                                                                  *)
(***************************************************************************)
MainRuns == exitCode = None /\ handlers = <<>>

\* line 1064: _server = grpc.server(...)
main_create_server ==
    /\ MainRuns /\ mainPc = "m_1064"
    /\ _server' = "set"
    /\ stage' = "NEW"
    /\ mainPc' = "m_1066"
    /\ UNCHANGED <<handlers, pending, deadline, clock, rpc, exitCode, sigLog, faulted,
                   bridgeVars, helper>>

\* lines 1065-1066: register the servicer, bind the port
main_bind ==
    /\ MainRuns /\ mainPc = "m_1066"
    /\ mainPc' = "m_1069"
    /\ UNCHANGED <<handlers, pending, _server, stage, deadline, clock, rpc, exitCode,
                   sigLog, faulted, bridgeVars, helper>>

\* line 1066: the port cannot be bound; add_insecure_port raises outside the try
\* statement and the interpreter ends with status 1
main_bind_fails ==
    /\ MainRuns /\ mainPc = "m_1066"
    /\ faulted' = TRUE
    /\ mainPc' = "exited"
    /\ exitCode' = Some(1)
    /\ UNCHANGED <<handlers, pending, _server, stage, deadline, clock, rpc, sigLog,
                   bridgeVars, helper>>

\* line 1069: _server.start()
main_start ==
    /\ MainRuns /\ mainPc = "m_1069"
    /\ stage' = IF stage = "NEW" THEN "STARTED" ELSE stage
    /\ mainPc' = "m_1071"
    /\ UNCHANGED <<handlers, pending, _server, deadline, clock, rpc, exitCode, sigLog,
                   faulted, bridgeVars, helper>>

\* lines 1069, 1071: start() or wait_for_termination() raises an Exception
main_server_error ==
    /\ MainRuns /\ mainPc \in {"m_1069", "m_1071"}
    /\ faulted' = TRUE
    /\ mainPc' = "m_1075"
    /\ UNCHANGED <<handlers, pending, _server, stage, deadline, clock, rpc, exitCode,
                   sigLog, bridgeVars, helper>>

\* lines 1074-1075: except Exception: log.exception("Server error")
main_except ==
    /\ MainRuns /\ mainPc = "m_1075"
    /\ mainPc' = "m_1076"
    /\ UNCHANGED <<handlers, pending, _server, stage, deadline, clock, rpc, exitCode,
                   sigLog, faulted, bridgeVars, helper>>

\* line 1076: return 1 (through the finally block)
main_return_1 ==
    /\ MainRuns /\ mainPc = "m_1076"
    /\ pending' = Some([kind |-> "return", code |-> 1])
    /\ mainPc' = "m_1078"
    /\ UNCHANGED <<handlers, _server, stage, deadline, clock, rpc, exitCode, sigLog,
                   faulted, bridgeVars, helper>>

\* line 1078: the finally block stops the server when there is one
main_finally_skips_stop == FALSE
main_finally_has_server == _server # "None"

\* lines 1078-1079: if _server is not None: _server.stop(grace=0)
main_finally_stop ==
    /\ MainRuns /\ mainPc = "m_1078"
    /\ IF main_finally_has_server
       THEN /\ stage' = StageAfterStop
            /\ deadline' = DeadlineAfterStop(FinallyGrace)
       ELSE UNCHANGED <<stage, deadline>>
    /\ mainPc' = "m_1080"
    /\ UNCHANGED <<handlers, pending, _server, clock, rpc, exitCode, sigLog, faulted,
                   bridgeVars, helper>>

\* line 1080 and the end of the finally block: the pending exception goes on to the
\* interpreter (SystemExit: its status), the pending return value to line 1086
main_finally_end ==
    /\ MainRuns /\ mainPc = "m_1080"
    /\ IF pending = None
       THEN /\ mainPc' = "m_1082"
            /\ UNCHANGED <<pending, exitCode>>
       ELSE IF ValueOf(pending).kind = "return"
       THEN /\ mainPc' = "m_1086"
            /\ UNCHANGED <<pending, exitCode>>
       ELSE /\ mainPc' = "exited"
            /\ exitCode' = Some(ValueOf(pending).code)
            /\ pending' = None
    /\ UNCHANGED <<handlers, _server, stage, deadline, clock, rpc, sigLog, faulted,
                   bridgeVars, helper>>

\* line 1086: sys.exit(main()) with the value main returned
main_exit ==
    /\ MainRuns /\ mainPc = "m_1086"
    /\ exitCode' = Some(ValueOf(pending).code)
    /\ pending' = None
    /\ mainPc' = "exited"
    /\ UNCHANGED <<handlers, _server, stage, deadline, clock, rpc, sigLog, faulted,
                   bridgeVars, helper>>

(***************************************************************************)
(* _graceful_shutdown(signum, frame)                                       *)
(***************************************************************************)
\* the operating system delivers SIGTERM or SIGINT: the handler starts on top of the
\* main thread's current frame
Signal ==
    /\ exitCode = None
    /\ sigLog.count < MaxSignals
    /\ \E signum \in Signals :
          handlers' = Append(handlers, [at |-> "h_1034", signum |-> signum])
    /\ sigLog' = IF sigLog.count = 0
                     THEN [count |-> 1, first |-> Some(clock), inflight |-> Running]
                     ELSE [sigLog EXCEPT !.count = @ + 1]
    /\ UNCHANGED <<mainPc, pending, _server, stage, deadline, clock, rpc, exitCode,
                   faulted, bridgeVars, helper>>

Top == handlers[Len(handlers)]
SetTop(at) == [handlers EXCEPT ![Len(handlers)].at = at]

\* lines 1034-1035: if _server is not None: _server.stop(grace=5)
_graceful_shutdown_stop ==
    /\ exitCode = None
    /\ handlers # <<>> /\ Top.at = "h_1034"
    /\ IF _server # "None"
       THEN /\ stage' = StageAfterStop
            /\ deadline' = DeadlineAfterStop(HandlerGrace)
       ELSE UNCHANGED <<stage, deadline>>
    /\ handlers' = SetTop("h_1036")
    /\ UNCHANGED <<mainPc, pending, _server, clock, rpc, exitCode, sigLog, faulted,
                   bridgeVars, helper>>

\* the status _graceful_shutdown exits with
\* (a handler that passes the signal on as the exit status)
ExitStatusFromSignal(signum) == 128 + signum
ExitStatus(signum) == 0

\* where SystemExit, raised on top of main's frame, finds main: inside the try
\* statement (its body or an except clause) the finally block runs first
InsideTry == mainPc \in {"m_1069", "m_1071", "m_1075", "m_1076"}

\* line 1036: sys.exit(0).  SystemExit unwinds the handler frames (none of them
\* catches it) and is raised in main at the point it was interrupted.
_graceful_shutdown_exit ==
    /\ exitCode = None
    /\ handlers # <<>> /\ Top.at = "h_1036"
    /\ handlers' = <<>>
    /\ IF InsideTry
       THEN /\ pending' = Some([kind |-> "SystemExit", code |-> ExitStatus(Top.signum)])
            /\ mainPc' = "m_1078"
            /\ UNCHANGED exitCode
       ELSE /\ pending' = None
            /\ mainPc' = "exited"
            /\ exitCode' = Some(ExitStatus(Top.signum))
    /\ UNCHANGED <<_server, stage, deadline, clock, rpc, sigLog, faulted, bridgeVars, helper>>

\* line 1082: return 0, and line 1086 exits with it.  The line runs when
\* wait_for_termination returns, that is when the server has stopped while main waits;
\* the server is stopped only by the handler, which leaves through SystemExit, and by
\* the finally block, so no run gets here and the step is not part of NextServer.
main_return_0 ==
    /\ MainRuns /\ mainPc = "m_1082"
    /\ pending' = Some([kind |-> "return", code |-> 0])
    /\ mainPc' = "m_1086"
    /\ UNCHANGED <<handlers, _server, stage, deadline, clock, rpc, exitCode, sigLog,
                   faulted, bridgeVars, helper>>

NextServer ==
    \/ main_create_server
    \/ main_bind
    \/ main_bind_fails
    \/ main_start
    \/ main_server_error
    \/ main_except
    \/ main_return_1
    \/ main_finally_stop
    \/ main_finally_end
    \/ main_exit
    \/ Signal
    \/ _graceful_shutdown_stop
    \/ _graceful_shutdown_exit
    \/ \E c \in CallIds : Accept(c) \/ Finish(c)
    \/ CancelAll
    \/ Terminate
    \/ Tick

SpecServer == Init /\ [][NextServer]_vars

(***************************************************************************)
(* Claims about the server runtime                                         *)
(***************************************************************************)
\* the runtime state the specification speaks of, read off the process and the server
RuntimeState ==
    IF exitCode # None /\ stage \in {"NONE", "NEW", "STARTED"} THEN "Stopped"
    ELSE IF stage = "NONE" THEN "Stopped"
    ELSE IF stage = "NEW" THEN "Starting"
    ELSE IF stage = "STARTED" THEN "Listening"
    ELSE IF stage = "GRACE" THEN "Draining"
    ELSE "Stopped"

Begun == stage # "NONE"

\* C5: after a termination signal has arrived at the listening server (no fault of the
\* server involved), no call that was in flight at the signal is force-stopped before
\* the 5-second grace period, counted from the signal, has elapsed.
C5_InFlightCallsGetFullGrace ==
    (sigLog.first # None /\ ~faulted) =>
        \A c \in sigLog.inflight :
            rpc[c] = "aborted" => clock >= ValueOf(sigLog.first) + HandlerGrace

\* C6: once a termination signal has been delivered, nothing that follows (a second
\* signal while draining or during the final cleanup included) restarts or extends the
\* grace timer, takes the server back out of draining or into it a second time, and a
\* process that received two or more signals exits with code 0.
C6_SecondSignalIdempotent ==
    [][sigLog.count >= 1 =>
          /\ deadline # None =>
                deadline' # None /\ ValueOf(deadline') <= ValueOf(deadline)
          /\ stage = "GRACE" => stage' \in {"GRACE", "STOPPED"}
          /\ stage = "STOPPED" => stage' = "STOPPED"
          /\ (exitCode' # None /\ sigLog'.count >= 2) => exitCode' = Some(0)]_vars

\* a second signal came while the server was draining a call, and the process has
\* exited with 0 after the drain
C6_Witness ==
    /\ sigLog.count = 2
    /\ exitCode = Some(0)
    /\ stage = "STOPPED"
    /\ \E c \in CallIds : rpc[c] = "finished"

\* C7: the process exits with 1 whenever the server stopped because of a fault (start,
\* wait or bind raised) and with 0 otherwise, whatever the interleaving of signals with
\* main's fault handling and cleanup.
C7_ExitCodeReflectsFault ==
    exitCode # None => exitCode = Some(IF faulted THEN 1 ELSE 0)

\* C8 (as stated): the runtime state only moves along
\* Stopped -> Starting -> Listening -> Draining -> Stopped.
ChainSteps ==
    {<<"Stopped", "Starting">>, <<"Starting", "Listening">>,
     <<"Listening", "Draining">>, <<"Draining", "Stopped">>}

C8_OnlyAlongTheChain ==
    [][RuntimeState' # RuntimeState =>
          /\ <<RuntimeState, RuntimeState'>> \in ChainSteps
          /\ RuntimeState = "Stopped" => ~Begun]_vars

\* C8 (amended): the runtime state moves along the chain, or from Starting directly to
\* the final Stopped when the process ends before the server was started; Listening is
\* entered only from Starting, Draining only from Listening, and nothing leaves the
\* final Stopped.
C8_ChainOrStoppedFromStarting ==
    [][RuntimeState' # RuntimeState =>
          /\ <<RuntimeState, RuntimeState'>> \in
                ChainSteps \cup {<<"Starting", "Stopped">>}
          /\ RuntimeState = "Stopped" => ~Begun]_vars

\* a termination signal ended the process while the server was constructed but not
\* started
C8_Witness ==
    /\ exitCode # None
    /\ stage = "NEW"
    /\ sigLog.count = 1
    /\ ~faulted

(***************************************************************************)
(* The helper functions applied on their own, each to every argument of a  *)
(* bounded set.  helper records the function, its arguments and what it    *)
(* returned.                                                               *)
(***************************************************************************)
HelperCall(fn, args, out) == [fn |-> fn, args |-> args, out |-> out]

Call_validate_symbol ==
    \E symbol \in Texts :
        /\ helper = NoHelperCall
        /\ helper' = HelperCall("_validate_symbol", [symbol |-> symbol],
                                 _validate_symbol(symbol, "SymbolInfo"))
        /\ UNCHANGED <<bridgeVars, serverVars>>

Call_validate_count ==
    \E count \in Counts :
        /\ helper = NoHelperCall
        /\ helper' = HelperCall("_validate_count", [count |-> count],
                                 _validate_count(count, "CopyRatesFrom"))
        /\ UNCHANGED <<bridgeVars, serverVars>>

\* the bounds handed to _validate_date_range: epoch seconds and datetimes, before and
\* after the epoch, on and between whole seconds
DateValues ==
    {PyInt(n) : n \in Counts}
    \cup {PyDatetime(h) : h \in (0 - 2 * MaxInt - 1) .. (2 * MaxInt + 1)}

Call_validate_date_range ==
    \E date_from, date_to \in DateValues :
        /\ helper = NoHelperCall
        /\ helper' = HelperCall("_validate_date_range",
                                 [date_from |-> date_from, date_to |-> date_to],
                                 _validate_date_range(date_from, date_to, "CopyRatesRange"))
        /\ UNCHANGED <<bridgeVars, serverVars>>

Call_materialize_single ==
    \E result \in Opt(OrderResults), nested_fields \in {<<>>, <<"request">>} :
        /\ helper = NoHelperCall
        /\ helper' = HelperCall("_materialize_single",
                                 [result |-> result, nested_fields |-> nested_fields],
                                 _materialize_single(result, "order_send", nested_fields))
        /\ UNCHANGED <<bridgeVars, serverVars>>

Call_materialize_tuple ==
    \E result \in Opt(ItemTuples) :
        /\ helper = NoHelperCall
        /\ helper' = HelperCall("_materialize_tuple", [result |-> result],
                                 _materialize_tuple(result, "positions_get"))
        /\ UNCHANGED <<bridgeVars, serverVars>>

Call_numpy_to_proto ==
    \E arr \in Opt(Arrays) :
        /\ helper = NoHelperCall
        /\ helper' = HelperCall("_numpy_to_proto", [arr |-> arr], _numpy_to_proto(arr))
        /\ UNCHANGED <<bridgeVars, serverVars>>

Call_dict_to_json ==
    \E data \in Opt({Dict([ticket |-> 1]), Dict([ticket |-> 2])}) :
        /\ helper = NoHelperCall
        /\ helper' = HelperCall("_dict_to_json", [data |-> data], _dict_to_json(data))
        /\ UNCHANGED <<bridgeVars, serverVars>>

\* symbols the terminal knows at most
MaxSymbols == 1200

\* the tuple symbols_get returns: n symbols, each its own namedtuple
SymbolTuple(n) == [i \in 1 .. n |-> NT([name |-> i])]

\* SymbolsGet applied to a terminal that knows n symbols, or that answers None
Call_SymbolsGet ==
    \E result \in {None} \cup {Some(SymbolTuple(n)) : n \in 0 .. MaxSymbols} :
        /\ helper = NoHelperCall
        /\ helper' = HelperCall("SymbolsGet", [result |-> result],
                                 SymbolsGet([msg |-> "SymbolsRequest", group |-> None],
                                            result).resp)
        /\ UNCHANGED <<bridgeVars, serverVars>>

\* GetConstants applied to a native module's namespace
Call_GetConstants ==
    \E mt5 \in Namespaces :
        /\ helper = NoHelperCall
        /\ helper' = HelperCall("GetConstants", [mt5 |-> mt5],
                                 GetConstants([msg |-> "Empty"], mt5).resp)
        /\ UNCHANGED <<bridgeVars, serverVars>>

\* OrderCalcMargin and OrderCalcProfit, after their ensure-loaded step, applied to
\* what the native function answers; out is the response as it goes on the wire
CalcMethods == {"OrderCalcMargin", "OrderCalcProfit"}
Call_OrderCalc ==
    \E m \in CalcMethods :
        \E request \in Requests(m), result \in NativeResults(m) :
            /\ helper = NoHelperCall
            /\ helper' = HelperCall(m, [request |-> request, result |-> result],
                                     SerializeFloatResponse(
                                         MethodBody(m, request, result, <<>>, TRUE).resp))
            /\ UNCHANGED <<bridgeVars, serverVars>>

\* HealthCheck, from line 215 on, applied to what the terminal answers
Call_HealthCheck ==
    \E terminal \in Opt(TerminalRecords), le \in ErrorTuples, mt5_loaded \in BOOLEAN :
        /\ helper = NoHelperCall
        /\ helper' = HelperCall("HealthCheck",
                                 [terminal |-> terminal, last_error |-> le,
                                  mt5_loaded |-> mt5_loaded],
                                 HealthCheck([msg |-> "Empty"], terminal, le,
                                             mt5_loaded).resp)
        /\ UNCHANGED <<bridgeVars, serverVars>>

(***************************************************************************)
(* Claims about the validators                                             *)
(***************************************************************************)
\* a text that is empty or holds nothing but whitespace
IsBlank(text) == \A i \in 1 .. Len(text) : text[i] = " "

\* C11: _validate_symbol fails for every symbol that is empty or blank and passes for
\* every other symbol.
C11_SymbolFailsIffBlank ==
    helper.fn = "_validate_symbol" =>
        helper.out = ~IsBlank(helper.args.symbol)

\* C12: _validate_count passes exactly when count > 0: it fails for 0 and for every
\* negative count and passes for every count >= 1.
C12_CountPassesIffPositive ==
    helper.fn = "_validate_count" =>
        /\ helper.args.count >= 1 => helper.out = TRUE
        /\ helper.args.count = 0 => helper.out = FALSE
        /\ helper.args.count < 0 => helper.out = FALSE

\* the validator has turned down a count of zero
C12_Witness ==
    /\ helper.fn = "_validate_count"
    /\ helper.args.count = 0
    /\ helper.out = FALSE

\* a bound in whole seconds: an int as it is, a datetime without its fraction
WholeSeconds(date) ==
    IF date.number THEN date.v
    ELSE CHOOSE n \in (0 - MaxInt - 1) .. (MaxInt + 1) :
            \/ date.v >= 0 /\ 2 * n <= date.v /\ date.v < 2 * n + 2
            \/ date.v < 0 /\ 2 * n - 2 < date.v /\ date.v <= 2 * n

\* C13: _validate_date_range, for bounds given as epoch seconds or as datetimes in any
\* combination, compares the bounds in whole seconds and passes exactly when
\* from <= to: it fails when from > to and passes when the bounds are equal.
C13_DateRangePassesIffOrdered ==
    helper.fn = "_validate_date_range" =>
        LET from == WholeSeconds(helper.args.date_from)
            to == WholeSeconds(helper.args.date_to)
        IN  /\ helper.out = (from <= to)
            /\ from > to => helper.out = FALSE
            /\ helper.args.date_from = helper.args.date_to => helper.out = TRUE

\* a datetime and an int that name the same second were accepted as a range
C13_Witness ==
    /\ helper.fn = "_validate_date_range"
    /\ ~helper.args.date_from.number /\ helper.args.date_to.number
    /\ WholeSeconds(helper.args.date_from) = helper.args.date_to.v
    /\ helper.out = TRUE

(***************************************************************************)
(* Claims about marshaling                                                 *)
(***************************************************************************)
\* C14: every marshaling function, given an absent input, returns its type's explicit
\* empty form (an empty dict or list rather than None, the zero-shape array
\* descriptor, the empty string) and never a null value.
C14_AbsentInputGivesEmptyForm ==
    /\ (helper.fn = "_materialize_single" /\ helper.args.result = None) =>
            helper.out # None
    /\ (helper.fn = "_materialize_tuple" /\ helper.args.result = None) =>
            helper.out # None
    /\ (helper.fn = "_numpy_to_proto" /\ helper.args.arr = None) =>
            helper.out = [type |-> "NumpyArray", data |-> <<>>, dtype |-> "",
                          shape |-> <<>>]
    /\ (helper.fn = "_dict_to_json" /\ helper.args.data = None) =>
            helper.out = EmptyText

(***************************************************************************)
(* Claims about the chunks of SymbolsGet                                   *)
(***************************************************************************)
\* the elements a client reads out of one chunk text
ChunkElements(text) == text[2]
ChunkLengths(chunks) == [k \in 1 .. Len(chunks) |-> Len(ChunkElements(chunks[k]))]
RECURSIVE SumSeq(_)
SumSeq(ns) == IF ns = <<>> THEN 0 ELSE Head(ns) + SumSeq(Tail(ns))
CeilDiv(n, d) == (n + d - 1) \div d

\* C15: for a symbol sequence of n >= 0 elements SymbolsGet yields exactly ceil(n/500)
\* chunks, the per-chunk element counts sum to n and the reported total is n; an absent
\* native result gives total 0 and no chunks.
C15_ChunkCountAndTotal ==
    helper.fn = "SymbolsGet" =>
        IF helper.args.result = None
        THEN helper.out.total = 0 /\ helper.out.chunks = <<>>
        ELSE LET n == Len(ValueOf(helper.args.result))
             IN  /\ Len(helper.out.chunks) = CeilDiv(n, 500)
                 /\ SumSeq(ChunkLengths(helper.out.chunks)) = n
                 /\ helper.out.total = n

\* 1001 symbols came back as three chunks with total 1001
C15_Witness ==
    /\ helper.fn = "SymbolsGet"
    /\ helper.args.result # None
    /\ Len(ValueOf(helper.args.result)) = 1001
    /\ Len(helper.out.chunks) = 3
    /\ helper.out.total = 1001

\* C16: the chunks are consecutive slices of the native sequence: concatenated in order
\* they give every element once, in the original order; every chunk but the last holds
\* exactly 500 elements and no chunk is empty.
C16_ChunksAreConsecutiveSlices ==
    (helper.fn = "SymbolsGet" /\ helper.args.result # None) =>
        LET items == ValueOf(helper.args.result)
            chunks == helper.out.chunks
            parsed == [k \in 1 .. Len(chunks) |-> ChunkElements(chunks[k])]
        IN  /\ Flatten(parsed) = [i \in 1 .. Len(items) |-> _asdict(items[i])]
            /\ \A k \in 1 .. Len(chunks) - 1 : Len(parsed[k]) = 500
            /\ \A k \in 1 .. Len(chunks) : Len(parsed[k]) >= 1

\* 1200 symbols came back as chunks of 500, 500 and 200
C16_Witness ==
    /\ helper.fn = "SymbolsGet"
    /\ helper.args.result # None
    /\ Len(ValueOf(helper.args.result)) = 1200
    /\ ChunkLengths(helper.out.chunks) = <<500, 500, 200>>

(***************************************************************************)
(* Claims about HealthCheck                                                *)
(***************************************************************************)
\* C19: HealthCheck never throws: when the module is not loaded it attempts the load,
\* and whether the import fails or the terminal is absent, not connected or healthy, it
\* returns a HealthStatus in which healthy, mt5_available, connected and trade_allowed
\* are all present.
C19_HealthCheckNeverThrows ==
    \A t \in Workers :
        frame[t].method = "HealthCheck" =>
            /\ pc[t] # "raised"
            /\ pc[t] = "returned" =>
                  /\ frame[t].resp.type = "HealthStatus"
                  /\ {"healthy", "mt5_available", "connected", "trade_allowed"}
                         \subseteq DOMAIN frame[t].resp
                  /\ frame[t].resp.healthy \in BOOLEAN
                  /\ frame[t].resp.mt5_available \in BOOLEAN
                  /\ frame[t].resp.connected \in BOOLEAN
                  /\ frame[t].resp.trade_allowed \in BOOLEAN
                  /\ frame[t].resp.mt5_available => _mt5_module # None
                  /\ ~frame[t].resp.mt5_available => frame[t].import_error # ""

\* a HealthCheck whose load attempt failed has answered that the module is unavailable
C19_Witness ==
    \E t \in Workers :
        /\ frame[t].method = "HealthCheck"
        /\ pc[t] = "returned"
        /\ frame[t].import_error # ""
        /\ frame[t].resp.mt5_available = FALSE
        /\ frame[t].resp.healthy = FALSE

\* C20: HealthCheck, when the native module is loaded but terminal_info() returns
\* absent, yields healthy=false, mt5_available=true, connected=false,
\* trade_allowed=false, build=0 and a non-empty reason.
C20_AbsentTerminalStatus ==
    (/\ helper.fn = "HealthCheck"
     /\ helper.args.mt5_loaded
     /\ helper.args.terminal = None) =>
        /\ helper.out.healthy = FALSE
        /\ helper.out.mt5_available = TRUE
        /\ helper.out.connected = FALSE
        /\ helper.out.trade_allowed = FALSE
        /\ helper.out.build = 0
        /\ helper.out.reason # EmptyText

\* HealthCheck has answered for a loaded module whose terminal is absent
C20_Witness ==
    /\ helper.fn = "HealthCheck"
    /\ helper.args.mt5_loaded
    /\ helper.args.terminal = None
    /\ helper.out.type = "HealthStatus"
    /\ helper.out.mt5_available = TRUE
    /\ helper.out.connected = FALSE

\* a returned HealthCheck of thread t found the module unavailable: its load attempt
\* raised, or left the handle null
ModuleUnavailable(t) == frame[t].import_error # "" \/ ~frame[t].mt5_loaded
\* a returned HealthCheck of thread t got no terminal_info: it went on to ask last_error
TerminalAbsent(t) ==
    \E i \in 1 .. Len(frame[t].calls) : frame[t].calls[i].fn = "last_error"

\* C30: in every HealthStatus that HealthCheck returns, healthy equals connected and
\* healthy implies mt5_available (so connected=true with healthy=false never occurs),
\* and the reason is non-empty exactly when the module is unavailable or
\* terminal_info is absent.
C30_HealthStatusConsistent ==
    \A t \in Workers :
        (frame[t].method = "HealthCheck" /\ pc[t] = "returned") =>
            /\ frame[t].resp.healthy = frame[t].resp.connected
            /\ frame[t].resp.healthy => frame[t].resp.mt5_available
            /\ ~(frame[t].resp.connected /\ ~frame[t].resp.healthy)
            /\ (frame[t].resp.reason # EmptyText) <=>
                   (ModuleUnavailable(t) \/ TerminalAbsent(t))

\* a HealthCheck has answered for a terminal that is present but not connected
C30_Witness ==
    \E t \in Workers :
        /\ frame[t].method = "HealthCheck"
        /\ pc[t] = "returned"
        /\ frame[t].resp.mt5_available
        /\ ~TerminalAbsent(t)
        /\ ~frame[t].resp.connected
        /\ frame[t].resp.reason = EmptyText

(***************************************************************************)
(* Claims about GetConstants                                               *)
(***************************************************************************)
\* the 21 timeframes, 9 order types and 6 trade actions
ProbedNames ==
    {"TIMEFRAME_M1", "TIMEFRAME_M2", "TIMEFRAME_M3", "TIMEFRAME_M4", "TIMEFRAME_M5",
     "TIMEFRAME_M6", "TIMEFRAME_M10", "TIMEFRAME_M12", "TIMEFRAME_M15",
     "TIMEFRAME_M20", "TIMEFRAME_M30", "TIMEFRAME_H1", "TIMEFRAME_H2", "TIMEFRAME_H3",
     "TIMEFRAME_H4", "TIMEFRAME_H6", "TIMEFRAME_H8", "TIMEFRAME_H12", "TIMEFRAME_D1",
     "TIMEFRAME_W1", "TIMEFRAME_MN1",
     "ORDER_TYPE_BUY", "ORDER_TYPE_SELL", "ORDER_TYPE_BUY_LIMIT",
     "ORDER_TYPE_SELL_LIMIT", "ORDER_TYPE_BUY_STOP", "ORDER_TYPE_SELL_STOP",
     "ORDER_TYPE_BUY_STOP_LIMIT", "ORDER_TYPE_SELL_STOP_LIMIT", "ORDER_TYPE_CLOSE_BY",
     "TRADE_ACTION_DEAL", "TRADE_ACTION_PENDING", "TRADE_ACTION_SLTP",
     "TRADE_ACTION_MODIFY", "TRADE_ACTION_REMOVE", "TRADE_ACTION_CLOSE_BY"}

\* the names a module defines, and those it defines with an integer value
Exposes(mt5, name) == name \in mt5.extra \/ (name \in CatalogueNames \ mt5.missing)
ExposesInt(mt5, name) == name \in CatalogueNames \ (mt5.missing \cup mt5.nonint)

ProbedPresent(values) ==
    /\ \A name \in ProbedNames : name \in DOMAIN values /\ values[name] \in Int
    /\ {"ORDER_TYPE_BUY", "ORDER_TYPE_SELL"} \subseteq DOMAIN values

\* C21 (as stated): against a module that exposes at least the 21 timeframes, 9 order
\* types and 6 trade actions, GetConstants returns at least 50 entries, each probed
\* name present with an integer value, ORDER_TYPE_BUY and ORDER_TYPE_SELL among them.
C21_FiftyEntriesFromProbedNames ==
    (/\ helper.fn = "GetConstants"
     /\ \A name \in ProbedNames : Exposes(helper.args.mt5, name)) =>
        /\ Cardinality(DOMAIN helper.out.values) >= 50
        /\ ProbedPresent(helper.out.values)

\* C21 (amended): against a module that defines the 21 timeframes, 9 order types and 6
\* trade actions with integer values, each of these names is in the table with an
\* integer value, ORDER_TYPE_BUY and ORDER_TYPE_SELL among them; the table has as many
\* entries as the module defines catalogue names with integer values, so at least 36,
\* and at least 50 only if the module defines that many.
C21_ProbedNamesPresent ==
    (/\ helper.fn = "GetConstants"
     /\ \A name \in ProbedNames : ExposesInt(helper.args.mt5, name)) =>
        /\ ProbedPresent(helper.out.values)
        /\ Cardinality(DOMAIN helper.out.values) >= 36
        /\ Cardinality({n \in CatalogueNames : ExposesInt(helper.args.mt5, n)}) >= 50
              => Cardinality(DOMAIN helper.out.values) >= 50

\* a module that defines the probed names and nothing else of the catalogue got a table
\* of 36 entries
C21_Witness ==
    /\ helper.fn = "GetConstants"
    /\ \A name \in ProbedNames : ExposesInt(helper.args.mt5, name)
    /\ Cardinality(DOMAIN helper.out.values) = 36
    /\ "ORDER_TYPE_SELL" \in DOMAIN helper.out.values

\* C22: the table holds exactly the catalogue names that the module defines with an
\* integer value: a name the module lacks or defines with another type is skipped, and
\* no name outside the catalogue appears.
C22_ExactlyIntegerCatalogueNames ==
    helper.fn = "GetConstants" =>
        /\ DOMAIN helper.out.values =
              {n \in CatalogueNames : ExposesInt(helper.args.mt5, n)}
        /\ DOMAIN helper.out.values \subseteq CatalogueNames
        /\ \A n \in DOMAIN helper.out.values : helper.out.values[n] \in Int
        /\ DOMAIN helper.out.values \cap
              (helper.args.mt5.missing \cup helper.args.mt5.nonint
               \cup helper.args.mt5.extra) = {}

\* a module with a non-integer catalogue name got a table without that name
C22_Witness ==
    /\ helper.fn = "GetConstants"
    /\ "COPY_TICKS_ALL" \in helper.args.mt5.nonint
    /\ "COPY_TICKS_ALL" \notin DOMAIN helper.out.values
    /\ "COPY_TICKS_INFO" \in DOMAIN helper.out.values

NextHelpers ==
    \/ Call_SymbolsGet
    \/ Call_GetConstants
    \/ Call_OrderCalc
    \/ Call_HealthCheck
    \/ Call_validate_symbol
    \/ Call_validate_count
    \/ Call_validate_date_range
    \/ Call_materialize_single
    \/ Call_materialize_tuple
    \/ Call_numpy_to_proto
    \/ Call_dict_to_json

SpecHelpers == Init /\ [][NextHelpers]_vars

(***************************************************************************)
(* Claims about the optional parameters the methods forward                *)
(***************************************************************************)
\* the names of the keyword arguments of a native call
KwNames(kwargs) == {kwargs[i][1] : i \in 1 .. Len(kwargs)}
\* the optional fields of a request that the caller supplied
Supplied(request, fields) == {f \in fields : HasField(request[f])}
\* the keyword arguments are exactly the supplied fields, each once, with its value
ForwardsExactly(kwargs, request, fields) ==
    /\ KwNames(kwargs) = Supplied(request, fields)
    /\ Len(kwargs) = Cardinality(Supplied(request, fields))
    /\ \A i \in 1 .. Len(kwargs) : kwargs[i][2] = ValueOf(request[kwargs[i][1]])

\* C17: Initialize forwards to the native initialize exactly the optional parameters
\* the caller supplied among path, login, password, server, timeout and portable: each
\* supplied field is one keyword argument whatever its value, each omitted field is
\* not passed.
C17_InitializeForwardsSupplied ==
    \A t \in Workers :
        (pc[t] = "returned" /\ frame[t].method = "Initialize") =>
            /\ Len(frame[t].calls) = 1
            /\ frame[t].calls[1].fn = "initialize"
            /\ ForwardsExactly(frame[t].calls[1].kwargs, frame[t].request,
                               {"path", "login", "password", "server", "timeout",
                                "portable"})

\* C18: PositionsGet and OrdersGet forward to the native module exactly the filters
\* among symbol, group and ticket that the caller supplied: a supplied filter is
\* forwarded even when its value is the empty string or ticket 0, an omitted filter is
\* left out of the call.
C18_FiltersForwardSupplied ==
    \A t \in Workers :
        (pc[t] = "returned" /\ frame[t].method \in FilterMethods) =>
            /\ Len(frame[t].calls) = 1
            /\ ForwardsExactly(frame[t].calls[1].kwargs, frame[t].request,
                               {"symbol", "group", "ticket"})

(***************************************************************************)
(* Termination of the server process                                       *)
(*                                                                         *)
(* The handlers run on the worker threads of the ThreadPoolExecutor that   *)
(* main() hands to grpc.server (line 1064).  Stopping the server aborts    *)
(* the calls still in flight, but the thread of an aborted call runs on    *)
(* until its handler returns, and the interpreter, once sys.exit has been  *)
(* called, joins the pool's worker threads before the process ends.        *)
(***************************************************************************)
\* the handler of an aborted call returns at last; nobody waits for its answer
ReturnAfterAbort(c) ==
    /\ rpc[c] = "aborted"
    /\ rpc' = [rpc EXCEPT ![c] = "returned"]
    /\ UNCHANGED <<mainPc, handlers, pending, _server, stage, deadline, clock, exitCode,
                   sigLog, faulted, bridgeVars, helper>>

\* the worker threads of the pool that are executing a handler
HandlerThreads == {c \in CallIds : rpc[c] \in {"running", "aborted"}}

\* sys.exit (lines 1036, 1086) has been called and the interpreter has joined the
\* worker threads: the process is gone
ProcessExited == exitCode # None /\ HandlerThreads = {}

\* the main thread: main() and the signal handlers that run on top of it
MainThread ==
    \/ main_create_server
    \/ main_bind
    \/ main_start
    \/ main_except
    \/ main_return_1
    \/ main_finally_stop
    \/ main_finally_end
    \/ main_exit
    \/ _graceful_shutdown_stop
    \/ _graceful_shutdown_exit

\* the threads of the grpc server: the grace timer and the shutdown it drives
ServerThreads == CancelAll \/ Terminate \/ Tick

NextServerFair == NextServer \/ \E c \in CallIds : ReturnAfterAbort(c)

\* The main thread and the server's own threads are always scheduled in the end.
\* Nothing makes a handler return, a client call, a signal arrive or a fault happen.
SpecServerFair ==
    Init /\ [][NextServerFair]_vars /\ WF_vars(MainThread) /\ WF_vars(ServerThreads)

\* C26: after a termination signal the server eventually reaches Stopped and the
\* process exits, even when a call in flight never returns: outstanding work cannot
\* postpone the stop beyond the grace period.
C26_SignalLeadsToStoppedAndExit ==
    (sigLog.count >= 1) ~> (RuntimeState = "Stopped" /\ ProcessExited)

(***************************************************************************)
(* Claims about the order of loading, validation and native calls          *)
(***************************************************************************)
\* C27: no native function is invoked while the handle is null: the ensure-loaded step
\* (in HealthCheck, the load attempt) completes before validation and before any
\* native call, so a call whose import fails ends in the import's error, with no
\* native call made, even when its parameters would have been rejected.
C27_NoNativeCallOnNullHandle ==
    \A t \in Workers :
        /\ Len(frame[t].calls) > 0 => _mt5_module # None
        /\ (pc[t] = "body" /\ frame[t].method # "HealthCheck") => _mt5_module # None
        /\ (pc[t] = "body" /\ frame[t].method = "HealthCheck") =>
               frame[t].mt5_loaded = (_mt5_module # None)
        /\ (InCall(t) /\ frame[t].method # "HealthCheck"
                /\ frame[t].import_error # "") =>
               /\ RaisedInLoader(t)
               /\ frame[t].err.kind = "ImportError"
               /\ frame[t].calls = <<>>

\* a SymbolInfo call with a blank symbol, which validation alone would have answered
\* with the empty response, has ended in the import's error
C27_Witness ==
    \E t \in Workers :
        /\ frame[t].method = "SymbolInfo"
        /\ IsBlank(frame[t].request.symbol)
        /\ RaisedInLoader(t)
        /\ frame[t].err.kind = "ImportError"
        /\ _mt5_module = None

\* C28: a failed load is not remembered: the failing import leaves the handle null and
\* the lock released, every later call that finds the handle null attempts the import
\* again (so the failed attempts may be as many as the calls), and an attempt that
\* succeeds loads the handle, which stays loaded from then on.
C28_FailedLoadNotRemembered ==
    [][/\ imports.failed' > imports.failed =>
            /\ _mt5_module' = None
            /\ _mt5_lock' = [owner |-> NoThread, count |-> 0]
       /\ \A t \in Workers :
            (/\ pc[t] \in {"ensure_80", "health_199"}
             /\ pc'[t] # pc[t]
             /\ _mt5_module = None) => pc'[t] = "load_70"
       /\ \A t \in Workers :
            (pc[t] = "load_71" /\ pc'[t] # pc[t] /\ _mt5_module = None) =>
                pc'[t] = "load_73"
       /\ \A t \in Workers :
            (pc[t] = "load_75" /\ pc'[t] # pc[t]) => _mt5_module' # None
       /\ _mt5_module # None => _mt5_module' = _mt5_module
       /\ imports.failed' <= done']_vars

\* after two failed imports a later call has imported the module and loaded the handle
C28_Witness ==
    /\ imports.failed = NumThreads
    /\ imports.ok = 1
    /\ _mt5_module # None
    /\ _mt5_lock.owner = NoThread

(***************************************************************************)
(* Claims about what a response depends on                                 *)
(***************************************************************************)
\* the call of thread t has run its body and ended with a response or an error
BodyDone(t) ==
    /\ InCall(t)
    /\ pc[t] \in {"returned", "raised"}
    /\ frame[t].import_error = ""
    /\ ~RaisedInLoader(t)

C24_AbsentResultIsZeroOnTheWire ==
    (helper.fn \in CalcMethods /\ helper.args.result = None) =>
        /\ helper.out = <<>>
        /\ helper.out = SerializeFloatResponse(
                            MethodBody(helper.fn, helper.args.request, Some(0),
                                       <<>>, TRUE).resp)

C24_Witness ==
    /\ helper.fn = "OrderCalcMargin"
    /\ helper.args.result = None
    /\ helper.out = <<>>

(***************************************************************************)
(* Claims about the history queries                                        *)
(***************************************************************************)
HistoryFilters == {"group", "ticket", "position"}

\* C23: HistoryOrdersGet and HistoryDealsGet, when both date bounds are supplied, pass
\* date_from and date_to positionally together with exactly those of the group, ticket
\* and position filters that the caller supplied; omitted filters are not passed.
C23_HistoryForwardsDatesAndSupplied ==
    \A t \in Workers :
        (/\ pc[t] = "returned"
         /\ frame[t].method \in HistoryGetMethods
         /\ HasField(frame[t].request.date_from)
         /\ HasField(frame[t].request.date_to)) =>
            /\ Len(frame[t].calls) = 1
            /\ frame[t].calls[1].args =
                  <<ValueOf(frame[t].request.date_from),
                    ValueOf(frame[t].request.date_to)>>
            /\ ForwardsExactly(frame[t].calls[1].kwargs, frame[t].request,
                               HistoryFilters)

\* C29: when exactly one of date_from and date_to is supplied, that bound is dropped
\* and the native function is called with the supplied group, ticket and position
\* filters only, with no arguments at all when no filter is supplied.
C29_OneSidedBoundDropped ==
    \A t \in Workers :
        (/\ pc[t] = "returned"
         /\ frame[t].method \in HistoryGetMethods
         /\ HasField(frame[t].request.date_from) # HasField(frame[t].request.date_to)) =>
            /\ Len(frame[t].calls) = 1
            /\ frame[t].calls[1].args = <<>>
            /\ ForwardsExactly(frame[t].calls[1].kwargs, frame[t].request,
                               HistoryFilters)

====
